---- MODULE Spec2Model ----
(***************************************************************************)
(* A state-machine model of the Cairo zero virtual machine of cairo-vm-go: *)
(* the segmented write-once memory (pkg/vm/memory), the per-step state     *)
(* transition of the virtual machine (pkg/vm) and the runner that drives   *)
(* it (pkg/runners/zero).                                                  *)
(*                                                                         *)
(* Memory values, the instruction decoder and safemath are not among the   *)
(* source files; they are modelled from the specification and marked so.   *)
(***************************************************************************)
EXTENDS Integers, Sequences, FiniteSets, TLC

(***************************************************************************)
(* Bounds of the model.                                                    *)
(***************************************************************************)
\* largest offset a caller of the memory API addresses
MaxApiOffset == 3
\* number of memory API calls (Write, Read, Peek) a caller makes
MaxApiCalls == 2
\* number of times a caller invokes Run on one runner
MaxRunCalls == 2
\* number of direct RunStep calls a caller makes
MaxStepCalls == 3

(***************************************************************************)
(* Field elements.  The field is a prime field; the model scales the       *)
(* modulus down.  A felt is a number in 0 .. FieldPrime - 1.               *)
(***************************************************************************)
FieldPrime == 31

FeltAdd(a, b) == (a + b) % FieldPrime
FeltSub(a, b) == (a - b + FieldPrime) % FieldPrime
FeltMul(a, b) == (a * b) % FieldPrime
\* the multiplicative inverse of a non-zero felt
FeltInv(a) == CHOOSE y \in 1 .. (FieldPrime - 1) : (a * y) % FieldPrime = 1
FeltDiv(a, b) == FeltMul(a, FeltInv(b))
\* a felt read as a signed number around zero
FeltSigned(a) == IF 2 * a > FieldPrime THEN a - FieldPrime ELSE a
\* a signed number as a felt
FeltOfInt(n) == ((n % FieldPrime) + FieldPrime) % FieldPrime

(***************************************************************************)
(* Memory addresses and memory values.                                     *)
(***************************************************************************)
ProgramSegment == 0
ExecutionSegment == 1

MemoryAddress(s, o) == [SegmentIndex |-> s, Offset |-> o]
\* the sentinel returned together with an error
UnknownValue == MemoryAddress(0, 0)

\* the zero MemoryValue{}: the content of a cell nobody populated
UnknownMV == [kind |-> "unknown", seg |-> 0, val |-> 0]
Felt(n) == [kind |-> "felt", seg |-> 0, val |-> n]
Addr(s, o) == [kind |-> "addr", seg |-> s, val |-> o]

Known(mv) == mv.kind # "unknown"
IsAddress(mv) == mv.kind = "addr"
IsFelt(mv) == mv.kind = "felt"
\* structural equality on tag and payload
Equal(a, b) == Known(a) /\ a = b
EmptyMemoryValueAsFelt == Felt(0)
MemoryValueFromMemoryAddress(a) == Addr(a.SegmentIndex, a.Offset)
MemoryValueFromSegmentAndOffset(s, o) == Addr(s, o)

NoErr == "nil"

\* F applied to the value of v: v is computed once, as a local variable of
\* the code is
Bind(v, F(_)) == CHOOSE y \in {F(x) : x \in {v}} : TRUE

(***************************************************************************)
(* The state.                                                              *)
(***************************************************************************)
VARIABLES
    program,        \* the compiled program the runner was built for
    proofmode,      \* runner.proofmode and vm.config.ProofMode
    maxsteps,       \* runner.maxsteps
    runFinished,    \* runner.runFinished
    mem,            \* memory.Segments: segment index i is mem[i + 1]
    ctx,            \* vm.Context
    step,           \* vm.Step
    trace,          \* vm.Trace
    instructions,   \* vm.instructions, the decode cache keyed by pc.Offset
    rpc,            \* where the runner is inside Run ("idle" outside)
    endPc,          \* the end address Run got from InitializeMainEntrypoint
    target,         \* the argument of the RunFor call in progress
    unknownArith,   \* how MemoryValue arithmetic treats a zero MemoryValue{}
    last,           \* the last call made and what it returned
    apiCalls,       \* memory API calls made so far
    runCalls,       \* Run calls made so far
    runsReturned,   \* Run calls that have returned
    stepCalls,      \* direct RunStep calls made so far
    stepsInCall,    \* RunStep calls made by the latest Run call
    reached,        \* vm.Step when the last RunUntilPc of Run returned nil
    entryCalls,     \* direct InitializeEntrypoint calls made so far
    proof           \* what the latest BuildProof or codec call was given and returned

vars == <<program, proofmode, maxsteps, runFinished, mem, ctx, step, trace,
          instructions, rpc, endPc, target, unknownArith, last, apiCalls,
          runCalls, runsReturned, stepCalls, stepsInCall, reached, entryCalls,
          proof>>

(***************************************************************************)
(* Memory value conversions and arithmetic.  The specification gives the   *)
(* result tags (Address +- Felt is an Address, Address - Address a Felt,   *)
(* Felt op Felt a Felt, everything else with an Address is disallowed) and *)
(* names division by zero an error.  It says nothing about an operand that *)
(* is the zero MemoryValue{}: unknownArith decides whether such an operand *)
(* counts as the felt zero or is refused.                                  *)
(***************************************************************************)
ToFieldElement(mv) ==
    IF IsFelt(mv) THEN [val |-> mv.val, err |-> NoErr]
    ELSE [val |-> 0, err |-> "TypeMismatch"]

ToMemoryAddress(mv) ==
    IF IsAddress(mv) THEN [val |-> MemoryAddress(mv.seg, mv.val), err |-> NoErr]
    ELSE [val |-> UnknownValue, err |-> "TypeMismatch"]

Uint64(mv) ==
    IF IsFelt(mv) THEN [val |-> mv.val, err |-> NoErr]
    ELSE [val |-> 0, err |-> "TypeMismatch"]

\* an operand as the arithmetic sees it
Operand(mv) == IF ~Known(mv) /\ unknownArith = "zero" THEN Felt(0) ELSE mv

MVFail(e) == [val |-> UnknownMV, err |-> e]
MVOk(v) == [val |-> v, err |-> NoErr]

\* MemoryAddress.Add: the offset moved by a felt read as a signed number
AddressAddFelt(s, o, f) ==
    IF o + FeltSigned(f) < 0 THEN MVFail("OffsetOverflow")
    ELSE MVOk(Addr(s, o + FeltSigned(f)))

MVAdd(lhs, rhs) ==
    LET l == Operand(lhs)
        r == Operand(rhs)
    IN  IF ~Known(l) \/ ~Known(r) THEN MVFail("TypeMismatch")
        ELSE IF IsAddress(l) /\ IsAddress(r) THEN MVFail("TypeMismatch")
        ELSE IF IsAddress(l) THEN AddressAddFelt(l.seg, l.val, r.val)
        ELSE IF IsAddress(r) THEN AddressAddFelt(r.seg, r.val, l.val)
        ELSE MVOk(Felt(FeltAdd(l.val, r.val)))

MVSub(lhs, rhs) ==
    LET l == Operand(lhs)
        r == Operand(rhs)
    IN  IF ~Known(l) \/ ~Known(r) THEN MVFail("TypeMismatch")
        ELSE IF IsAddress(l) /\ IsAddress(r)
             THEN IF l.seg = r.seg THEN MVOk(Felt(FeltOfInt(l.val - r.val)))
                  ELSE MVFail("TypeMismatch")
        ELSE IF IsAddress(l) THEN AddressAddFelt(l.seg, l.val, FeltSub(0, r.val))
        ELSE IF IsAddress(r) THEN MVFail("TypeMismatch")
        ELSE MVOk(Felt(FeltSub(l.val, r.val)))

MVMul(lhs, rhs) ==
    LET l == Operand(lhs)
        r == Operand(rhs)
    IN  IF ~IsFelt(l) \/ ~IsFelt(r) THEN MVFail("TypeMismatch")
        ELSE MVOk(Felt(FeltMul(l.val, r.val)))

MVDiv(lhs, rhs) ==
    LET l == Operand(lhs)
        r == Operand(rhs)
    IN  IF ~IsFelt(l) \/ ~IsFelt(r) THEN MVFail("TypeMismatch")
        ELSE IF r.val = 0 THEN MVFail("DivisionByZero")
        ELSE MVOk(Felt(FeltDiv(l.val, r.val)))

(***************************************************************************)
(* Segments.  A segment is the slice Data (its length len, its capacity    *)
(* cap, and data, the populated cells: an offset below len that data does  *)
(* not hold is the zero MemoryValue{}) and LastIndex.  Every segment of    *)
(* the sources carries the NoBuiltin runner.                               *)
(***************************************************************************)
DefaultCapacity == 100

Max(a, b) == IF a >= b THEN a ELSE b

NoCells == [o \in {} |-> UnknownMV]

EmptySegment ==
    [len |-> 0, cap |-> DefaultCapacity, data |-> NoCells, LastIndex |-> -1,
     BuiltinRunner |-> "NoBuiltin"]

EmptySegmentWithLength(length) ==
    [len |-> length, cap |-> length, data |-> NoCells, LastIndex |-> length - 1,
     BuiltinRunner |-> "NoBuiltin"]

\* Segment.Len (Len is the length of a sequence here)
SegLen(segment) == segment.LastIndex + 1
RealLen(segment) == segment.len

\* segment.Data[offset]
Cell(segment, offset) ==
    IF offset \in DOMAIN segment.data THEN segment.data[offset] ELSE UnknownMV

\* segment.Data[offset] = value
SetCell(segment, offset, value) ==
    [segment EXCEPT !.data =
        IF Known(value)
        THEN [o \in (DOMAIN segment.data) \cup {offset} |->
                 IF o = offset THEN value ELSE segment.data[o]]
        ELSE [o \in (DOMAIN segment.data) \ {offset} |-> segment.data[o]]]

\* IncreaseSegmentSize allocating newSize cells, without the doubling
IncreaseSegmentSizeExact(segment, newSize) ==
    IF segment.cap > newSize
    THEN [segment EXCEPT !.len = segment.cap]
    ELSE [segment EXCEPT !.len = newSize, !.cap = newSize]

\* Reslices to the capacity when that is enough, else allocates
\* max(newSize, 2 * len) cells and copies.
IncreaseSegmentSize(segment, newSize) ==
    IF segment.cap > newSize
    THEN [segment EXCEPT !.len = segment.cap]
    ELSE [segment EXCEPT !.len = Max(newSize, 2 * segment.len),
                         !.cap = Max(newSize, 2 * segment.len)]

\* NoBuiltin.CheckWrite
CheckWrite(segment, offset, value) == NoErr

\* a builtin runner that infers nothing and reports no error
InferNothing(segment, offset) == [seg |-> segment, err |-> NoErr]

\* NoBuiltin.InferValue
InferValue(segment, offset) ==
    [seg |-> SetCell(segment, offset, EmptyMemoryValueAsFelt), err |-> NoErr]

\* a builtin runner as the BuiltinRunner interface allows one: it approves
\* the writes of felts only, and infers no value
FeltsOnlyCheckWrite(segment, offset, value) ==
    IF IsFelt(value) THEN NoErr ELSE "CheckWrite"
FeltsOnlyInferValue(segment, offset) == [seg |-> segment, err |-> "UnknownValue"]

\* segment.BuiltinRunner.CheckWrite and segment.BuiltinRunner.InferValue
RunnerCheckWrite(segment, offset, value) ==
    IF segment.BuiltinRunner = "NoBuiltin"
    THEN CheckWrite(segment, offset, value)
    ELSE FeltsOnlyCheckWrite(segment, offset, value)
RunnerInferValue(segment, offset) ==
    IF segment.BuiltinRunner = "NoBuiltin"
    THEN InferValue(segment, offset)
    ELSE FeltsOnlyInferValue(segment, offset)

WithBuiltinRunner(segment, builtinRunner) ==
    [segment EXCEPT !.BuiltinRunner = builtinRunner]

\* the segment with room for offset
Grow(segment, offset) ==
    IF offset >= RealLen(segment)
    THEN IncreaseSegmentSize(segment, offset + 1)
    ELSE segment

\* Write and Peek raise LastIndex for an offset at or past Len()
RaiseLastIndex(segment, offset) ==
    IF offset >= SegLen(segment) THEN [segment EXCEPT !.LastIndex = offset] ELSE segment

\* Read raises LastIndex only for an offset strictly past Len()
RaiseLastIndexOnRead(segment, offset) ==
    IF offset > SegLen(segment) THEN [segment EXCEPT !.LastIndex = offset] ELSE segment

\* the write checked by the builtin runner
Checked(segment, offset, value) ==
    [seg |-> segment, err |-> RunnerCheckWrite(segment, offset, value)]

\* Segment.Write without the rewrite test
WriteCellUnchecked(segment, offset, value) ==
    Bind(SetCell(segment, offset, value), LAMBDA s : Checked(s, offset, value))

\* Segment.Write from the cell on: the rewrite test, the store, the check
WriteCell(segment, offset, value) ==
    IF Known(Cell(segment, offset)) /\ ~Equal(Cell(segment, offset), value)
    THEN [seg |-> segment, err |-> "RewriteCell"]
    ELSE Bind(SetCell(segment, offset, value), LAMBDA s : Checked(s, offset, value))

SegmentWrite(segment, offset, value) ==
    Bind(Grow(segment, offset),
         LAMBDA grown : Bind(RaiseLastIndex(grown, offset),
                             LAMBDA s : WriteCell(s, offset, value)))

\* what Read returns after the builtin runner inferred the cell
Inferred(inf, offset) ==
    IF inf.err # NoErr
    THEN [seg |-> inf.seg, val |-> UnknownMV, err |-> inf.err]
    ELSE [seg |-> inf.seg, val |-> Cell(inf.seg, offset), err |-> NoErr]

\* Segment.Read asking the builtin runner whether or not the cell is known
ReadCellAlwaysInfers(segment, offset) ==
    Bind(RunnerInferValue(segment, offset), LAMBDA inf : Inferred(inf, offset))

\* Segment.Read from the cell on
ReadCell(segment, offset) ==
    IF ~Known(Cell(segment, offset))
    THEN Bind(RunnerInferValue(segment, offset), LAMBDA inf : Inferred(inf, offset))
    ELSE [seg |-> segment, val |-> Cell(segment, offset), err |-> NoErr]

SegmentRead(segment, offset) ==
    Bind(Grow(segment, offset),
         LAMBDA grown : Bind(RaiseLastIndexOnRead(grown, offset),
                             LAMBDA s : ReadCell(s, offset)))

\* Segment.Peek asking the builtin runner for an unknown cell, as Read does
PeekCellInferring(segment, offset) == ReadCell(segment, offset)

PeekCell(segment, offset) ==
    [seg |-> segment, val |-> Cell(segment, offset), err |-> NoErr]

SegmentPeek(segment, offset) ==
    Bind(Grow(segment, offset),
         LAMBDA grown : Bind(RaiseLastIndex(grown, offset),
                             LAMBDA s : PeekCell(s, offset)))

(***************************************************************************)
(* Memory: the segments in allocation order.                               *)
(***************************************************************************)
Allocated(m, segmentIndex) == segmentIndex < Len(m)

RECURSIVE WriteAll(_, _, _)
\* the loop of AllocateSegment: data[i] written at offset i - 1
WriteAll(segment, data, i) ==
    IF i > Len(data) THEN segment
    ELSE Bind(SegmentWrite(segment, i - 1, Felt(data[i])),
              LAMBDA w : WriteAll(w.seg, data, i + 1))

AllocateSegment(m, data) ==
    Append(m, WriteAll(EmptySegmentWithLength(Len(data)), data, 1))

AllocateEmptySegment(m) == Append(m, EmptySegment)

SetSegment(m, segmentIndex, segment) == [m EXCEPT ![segmentIndex + 1] = segment]

\* the memory after a segment operation, and what the operation returned
Stored(m, segmentIndex, w) ==
    [mem |-> SetSegment(m, segmentIndex, w.seg), err |-> w.err]

Fetched(m, segmentIndex, r) ==
    [mem |-> SetSegment(m, segmentIndex, r.seg), val |-> r.val, err |-> r.err]

MemoryWrite(m, segmentIndex, offset, value) ==
    IF ~Allocated(m, segmentIndex)
    THEN [mem |-> m, err |-> "UnallocatedSegment"]
    ELSE Bind(SegmentWrite(m[segmentIndex + 1], offset, value),
              LAMBDA w : Stored(m, segmentIndex, w))

WriteToAddress(m, address, value) ==
    MemoryWrite(m, address.SegmentIndex, address.Offset, value)

MemoryRead(m, segmentIndex, offset) ==
    IF ~Allocated(m, segmentIndex)
    THEN [mem |-> m, val |-> UnknownMV, err |-> "UnallocatedSegment"]
    ELSE Bind(SegmentRead(m[segmentIndex + 1], offset),
              LAMBDA r : Fetched(m, segmentIndex, r))

ReadFromAddress(m, address) == MemoryRead(m, address.SegmentIndex, address.Offset)

MemoryPeek(m, segmentIndex, offset) ==
    IF ~Allocated(m, segmentIndex)
    THEN [mem |-> m, val |-> UnknownMV, err |-> "UnallocatedSegment"]
    ELSE Bind(SegmentPeek(m[segmentIndex + 1], offset),
              LAMBDA r : Fetched(m, segmentIndex, r))

PeekFromAddress(m, address) == MemoryPeek(m, address.SegmentIndex, address.Offset)

(***************************************************************************)
(* Instructions.  A decoded instruction is a record of the flag fields.    *)
(* The decoder is modelled as a table from instruction words to decoded    *)
(* instructions; a word outside the table is an invalid instruction.       *)
(***************************************************************************)
Instr(offDest, offOp0, offOp1, dstReg, op0Reg, op1Src, res, pcUpdate, apUpdate, opcode) ==
    [OffDest |-> offDest, OffOp0 |-> offOp0, OffOp1 |-> offOp1,
     DstRegister |-> dstReg, Op0Register |-> op0Reg, Op1Source |-> op1Src,
     Res |-> res, PcUpdate |-> pcUpdate, ApUpdate |-> apUpdate, Opcode |-> opcode]

\* the instruction words of the programs below
\*   AssertImm  [ap] = imm; ap++
\*   CheckImm   [ap - 1] = imm
\*   Add        [ap - 2] = [ap - 1] + [ap]
\*   Mul        [ap - 2] = [ap - 1] * [ap]
\*   AddSame    [ap - 1] = [ap] + [ap]
\*   CallRel    call rel imm
\*   Ret        ret
\*   JmpRel     jmp rel imm
\*   Jnz        jmp rel imm if [ap - 1] != 0
\*   JmpAbsFp   jmp abs [fp - 2]
\*   AddAp      ap += imm
\*   AddFp      [fp] = [fp + 1] + [fp + 2]
\*   MulFp      [fp] = [fp + 1] * [fp + 2]
\*   JnzFp      jmp rel [fp + 1] if [fp] != 0
W ==
    [AssertImm |-> 10,
     CheckImm |-> 11,
     Add |-> 12,
     Mul |-> 13,
     AddSame |-> 14,
     CallRel |-> 15,
     Ret |-> 16,
     JmpRel |-> 17,
     Jnz |-> 18,
     JmpAbsFp |-> 19,
     AddAp |-> 20,
     AddFp |-> 21,
     MulFp |-> 22,
     JnzFp |-> 23]

InstructionTable ==
    [w \in W.AssertImm .. W.JnzFp |->
       CASE w = W.AssertImm -> Instr(0, -1, 1, "Ap", "Fp", "Imm", "Op1", "NextInstr", "Add1", "AssertEq")
         [] w = W.CheckImm  -> Instr(-1, -1, 1, "Ap", "Fp", "Imm", "Op1", "NextInstr", "SameAp", "AssertEq")
         [] w = W.Add       -> Instr(-2, -1, 0, "Ap", "Ap", "ApPlusOffOp1", "AddOperands", "NextInstr", "SameAp", "AssertEq")
         [] w = W.Mul       -> Instr(-2, -1, 0, "Ap", "Ap", "ApPlusOffOp1", "MulOperands", "NextInstr", "SameAp", "AssertEq")
         [] w = W.AddSame   -> Instr(-1, 0, 0, "Ap", "Ap", "ApPlusOffOp1", "AddOperands", "NextInstr", "SameAp", "AssertEq")
         [] w = W.CallRel   -> Instr(0, 1, 1, "Ap", "Ap", "Imm", "Op1", "JumpRel", "Add2", "Call")
         [] w = W.Ret       -> Instr(-2, -1, -1, "Fp", "Fp", "FpPlusOffOp1", "Op1", "Jump", "SameAp", "Ret")
         [] w = W.JmpRel    -> Instr(-1, -1, 1, "Fp", "Fp", "Imm", "Op1", "JumpRel", "SameAp", "Nop")
         [] w = W.Jnz       -> Instr(-1, -1, 1, "Ap", "Fp", "Imm", "Unconstrained", "Jnz", "SameAp", "Nop")
         [] w = W.JmpAbsFp  -> Instr(-1, -1, -2, "Fp", "Fp", "FpPlusOffOp1", "Op1", "Jump", "SameAp", "Nop")
         [] w = W.AddAp     -> Instr(-1, -1, 1, "Fp", "Fp", "Imm", "Op1", "NextInstr", "AddImm", "Nop")
         [] w = W.AddFp     -> Instr(0, 1, 2, "Fp", "Fp", "FpPlusOffOp1", "AddOperands", "NextInstr", "SameAp", "AssertEq")
         [] w = W.MulFp     -> Instr(0, 1, 2, "Fp", "Fp", "FpPlusOffOp1", "MulOperands", "NextInstr", "SameAp", "AssertEq")
         [] w = W.JnzFp     -> Instr(0, -1, 1, "Fp", "Fp", "FpPlusOffOp1", "Unconstrained", "Jnz", "SameAp", "Nop")]

DecodeInstruction(word) ==
    IF word \in DOMAIN InstructionTable
    THEN [instr |-> InstructionTable[word], err |-> NoErr]
    ELSE [instr |-> InstructionTable[W.Ret], err |-> "InvalidInstruction"]

\* Instruction.Size: 2 with an immediate, else 1
Size(instruction) == IF instruction.Op1Source = "Imm" THEN 2 ELSE 1

\* safemath.SafeOffset: a register plus a signed offset; a result below
\* zero is an overflow
SafeOffset(base, off) ==
    [val |-> base + off, isOverflow |-> base + off < 0]

(***************************************************************************)
(* The execution context and one step of the virtual machine.  Every       *)
(* operator returns the memory as the calls it models leave it, also when  *)
(* it returns an error.                                                    *)
(***************************************************************************)
Context(pc, ap, fp) == [Pc |-> pc, Ap |-> ap, Fp |-> fp]

AddressAp(c) == MemoryAddress(ExecutionSegment, c.Ap)
AddressFp(c) == MemoryAddress(ExecutionSegment, c.Fp)
AddressPc(c) == MemoryAddress(c.Pc.SegmentIndex, c.Pc.Offset)

getDstAddr(c, instruction) ==
    LET dstRegister == IF instruction.DstRegister = "Ap" THEN c.Ap ELSE c.Fp
        so == SafeOffset(dstRegister, instruction.OffDest)
    IN  IF so.isOverflow THEN [addr |-> UnknownValue, err |-> "OffsetOverflow"]
        ELSE [addr |-> MemoryAddress(ExecutionSegment, so.val), err |-> NoErr]

getOp0Addr(c, instruction) ==
    LET op0Register == IF instruction.Op0Register = "Ap" THEN c.Ap ELSE c.Fp
        so == SafeOffset(op0Register, instruction.OffOp0)
    IN  IF so.isOverflow THEN [addr |-> UnknownValue, err |-> "OffsetOverflow"]
        ELSE [addr |-> MemoryAddress(ExecutionSegment, so.val), err |-> NoErr]

AddrFail(m, e) == [mem |-> m, addr |-> UnknownValue, err |-> e]

\* op0 read and unwrapped as the base address of op1
Op0AsBase(r) ==
    IF r.err # NoErr THEN AddrFail(r.mem, r.err)
    ELSE [mem |-> r.mem, addr |-> ToMemoryAddress(r.val).val,
          err |-> ToMemoryAddress(r.val).err]

\* the base address of op1 and the memory after resolving it
Op1Base(m, c, instruction, op0Addr) ==
    CASE instruction.Op1Source = "Op0" -> Bind(ReadFromAddress(m, op0Addr), Op0AsBase)
      [] instruction.Op1Source = "Imm" ->
           [mem |-> m, addr |-> AddressPc(c), err |-> NoErr]
      [] instruction.Op1Source = "FpPlusOffOp1" ->
           [mem |-> m, addr |-> AddressFp(c), err |-> NoErr]
      [] instruction.Op1Source = "ApPlusOffOp1" ->
           [mem |-> m, addr |-> AddressAp(c), err |-> NoErr]

OffsetOp1(instruction, b) ==
    IF b.err # NoErr THEN b
    ELSE IF SafeOffset(b.addr.Offset, instruction.OffOp1).isOverflow
         THEN AddrFail(b.mem, "OffsetOverflow")
    ELSE [mem |-> b.mem,
          addr |-> MemoryAddress(b.addr.SegmentIndex,
                                 SafeOffset(b.addr.Offset, instruction.OffOp1).val),
          err |-> NoErr]

getOp1Addr(m, c, instruction, op0Addr) ==
    Bind(Op1Base(m, c, instruction, op0Addr), LAMBDA b : OffsetOp1(instruction, b))

NoRes(m) == [mem |-> m, res |-> UnknownMV, err |-> NoErr]
ResFail(m, e) == [mem |-> m, res |-> UnknownMV, err |-> e]

\* inferOperand, last stage: the missing operand was written
InferWritten(dstValue, w) ==
    IF w.err # NoErr THEN ResFail(w.mem, w.err)
    ELSE [mem |-> w.mem, res |-> dstValue, err |-> NoErr]

\* inferOperand: the missing operand was computed
InferMissing(m, dstValue, unknownOpAddr, missing) ==
    IF missing.err # NoErr THEN ResFail(m, missing.err)
    ELSE Bind(WriteToAddress(m, unknownOpAddr, missing.val),
              LAMBDA w : InferWritten(dstValue, w))

\* the missing operand taken as dst + known and dst * known
MissingValueCombined(instruction, dstValue, knownOpValue) ==
    IF instruction.Res = "AddOperands"
    THEN MVAdd(dstValue, knownOpValue)
    ELSE MVMul(dstValue, knownOpValue)

\* dst - known for Add, dst / known for Mul
MissingValue(instruction, dstValue, knownOpValue) ==
    IF instruction.Res = "AddOperands"
    THEN MVSub(dstValue, knownOpValue)
    ELSE MVDiv(dstValue, knownOpValue)

\* inferOperand: dst was peeked.  The operand taken as the known one is op0
\* when op0 is known and op1 otherwise, whether or not op1 is known.
InferDst(instruction, op0Addr, op1Addr, op0Value, op1Value, pd) ==
    IF pd.err # NoErr THEN ResFail(pd.mem, pd.err)
    ELSE IF ~Known(pd.val) THEN ResFail(pd.mem, "UnknownValue")
    ELSE Bind(MissingValue(instruction, pd.val,
                           IF Known(op0Value) THEN op0Value ELSE op1Value),
              LAMBDA missing :
                  InferMissing(pd.mem, pd.val,
                               IF Known(op0Value) THEN op1Addr ELSE op0Addr, missing))

\* inferOperand: op1 was peeked
InferOp1(instruction, dstAddr, op0Addr, op1Addr, op0Value, p1) ==
    IF p1.err # NoErr THEN ResFail(p1.mem, p1.err)
    ELSE IF Known(op0Value) /\ Known(p1.val) THEN NoRes(p1.mem)
    ELSE Bind(PeekFromAddress(p1.mem, dstAddr),
              LAMBDA pd : InferDst(instruction, op0Addr, op1Addr, op0Value, p1.val, pd))

\* inferOperand: op0 was peeked
InferOp0(instruction, dstAddr, op0Addr, op1Addr, p0) ==
    IF p0.err # NoErr THEN ResFail(p0.mem, p0.err)
    ELSE Bind(PeekFromAddress(p0.mem, op1Addr),
              LAMBDA p1 : InferOp1(instruction, dstAddr, op0Addr, op1Addr, p0.val, p1))

inferOperand(m, instruction, dstAddr, op0Addr, op1Addr) ==
    IF instruction.Opcode # "AssertEq"
       \/ (instruction.Res # "AddOperands" /\ instruction.Res # "MulOperands")
    THEN NoRes(m)
    ELSE Bind(PeekFromAddress(m, op0Addr),
              LAMBDA p0 : InferOp0(instruction, dstAddr, op0Addr, op1Addr, p0))

AsRes(r) == [mem |-> r.mem, res |-> r.val, err |-> r.err]

\* computeRes: the operands were combined
Combined(m, res) == [mem |-> m, res |-> res.val, err |-> res.err]

\* computeRes: both operands were read
ResOp1(instruction, op0, r1) ==
    IF r1.err # NoErr THEN ResFail(r1.mem, r1.err)
    ELSE IF instruction.Res = "AddOperands"
         THEN Bind(MVAdd(op0, r1.val), LAMBDA res : Combined(r1.mem, res))
    ELSE Bind(MVMul(op0, r1.val), LAMBDA res : Combined(r1.mem, res))

\* computeRes: op0 was read
ResOp0(instruction, op1Addr, r0) ==
    IF r0.err # NoErr THEN ResFail(r0.mem, r0.err)
    ELSE Bind(ReadFromAddress(r0.mem, op1Addr),
              LAMBDA r1 : ResOp1(instruction, r0.val, r1))

computeRes(m, instruction, op0Addr, op1Addr) ==
    CASE instruction.Res = "Unconstrained" -> NoRes(m)
      [] instruction.Res = "Op1" -> Bind(ReadFromAddress(m, op1Addr), AsRes)
      [] OTHER -> Bind(ReadFromAddress(m, op0Addr),
                       LAMBDA r0 : ResOp0(instruction, op1Addr, r0))

\* Call, after fp was written to dst: the return pc is written to op0
CallReturnPc(op0Addr, apMv, w1) ==
    IF w1.err # NoErr THEN w1 ELSE WriteToAddress(w1.mem, op0Addr, apMv)

opcodeAssertions(m, c, instruction, dstAddr, op0Addr, res) ==
    CASE instruction.Opcode = "Call" ->
           Bind(WriteToAddress(m, dstAddr, MemoryValueFromMemoryAddress(AddressFp(c))),
                LAMBDA w1 :
                    CallReturnPc(op0Addr,
                                 MemoryValueFromSegmentAndOffset(
                                     c.Pc.SegmentIndex, c.Pc.Offset + Size(instruction)),
                                 w1))
      [] instruction.Opcode = "AssertEq" -> WriteToAddress(m, dstAddr, res)
      [] OTHER -> [mem |-> m, err |-> NoErr]

PcFail(m, e) == [mem |-> m, pc |-> UnknownValue, err |-> e]

NextInstrPc(m, c, instruction) ==
    [mem |-> m,
     pc |-> MemoryAddress(c.Pc.SegmentIndex, c.Pc.Offset + Size(instruction)),
     err |-> NoErr]

PcMoved(m, pc, sum) ==
    IF sum.err # NoErr THEN [mem |-> m, pc |-> pc, err |-> sum.err]
    ELSE [mem |-> m, pc |-> MemoryAddress(pc.SegmentIndex, sum.val.val), err |-> NoErr]

\* newPc.Add(&newPc, val): the pc moved by a felt
PcAddFelt(m, pc, val) ==
    Bind(AddressAddFelt(pc.SegmentIndex, pc.Offset, val),
         LAMBDA sum : PcMoved(m, pc, sum))

\* Jnz taken: op1 was read
JnzOp1(c, r1) ==
    IF r1.err # NoErr THEN PcFail(r1.mem, r1.err)
    ELSE IF ToFieldElement(r1.val).err # NoErr
         THEN PcFail(r1.mem, ToFieldElement(r1.val).err)
    ELSE PcAddFelt(r1.mem, c.Pc, ToFieldElement(r1.val).val)

\* Jnz that falls through whatever felt dst holds
JnzDstNotTaken(c, instruction, op1Addr, rd) ==
    IF rd.err # NoErr THEN PcFail(rd.mem, rd.err)
    ELSE IF ToFieldElement(rd.val).err # NoErr
         THEN PcFail(rd.mem, ToFieldElement(rd.val).err)
    ELSE NextInstrPc(rd.mem, c, instruction)

\* Jnz: dst was read
JnzDst(c, instruction, op1Addr, rd) ==
    IF rd.err # NoErr THEN PcFail(rd.mem, rd.err)
    ELSE IF ToFieldElement(rd.val).err # NoErr
         THEN PcFail(rd.mem, ToFieldElement(rd.val).err)
    ELSE IF ToFieldElement(rd.val).val = 0 THEN NextInstrPc(rd.mem, c, instruction)
    ELSE Bind(ReadFromAddress(rd.mem, op1Addr), LAMBDA r1 : JnzOp1(c, r1))

updatePc(m, c, instruction, dstAddr, op1Addr, res) ==
    CASE instruction.PcUpdate = "NextInstr" -> NextInstrPc(m, c, instruction)
      [] instruction.PcUpdate = "Jump" ->
           IF ToMemoryAddress(res).err # NoErr
           THEN PcFail(m, ToMemoryAddress(res).err)
           ELSE [mem |-> m, pc |-> ToMemoryAddress(res).val, err |-> NoErr]
      [] instruction.PcUpdate = "JumpRel" ->
           IF ToFieldElement(res).err # NoErr
           THEN PcFail(m, ToFieldElement(res).err)
           ELSE PcAddFelt(m, c.Pc, ToFieldElement(res).val)
      [] instruction.PcUpdate = "Jnz" ->
           Bind(ReadFromAddress(m, dstAddr),
                LAMBDA rd : JnzDst(c, instruction, op1Addr, rd))

\* updateAp with a Call raising ap by one
updateApByOne(c, instruction, res) ==
    CASE instruction.ApUpdate = "SameAp" -> [ap |-> c.Ap, err |-> NoErr]
      [] instruction.ApUpdate = "AddImm" ->
           IF Uint64(res).err # NoErr THEN [ap |-> 0, err |-> Uint64(res).err]
           ELSE [ap |-> c.Ap + Uint64(res).val, err |-> NoErr]
      [] instruction.ApUpdate = "Add1" -> [ap |-> c.Ap + 1, err |-> NoErr]
      [] instruction.ApUpdate = "Add2" -> [ap |-> c.Ap + 1, err |-> NoErr]

updateAp(c, instruction, res) ==
    CASE instruction.ApUpdate = "SameAp" -> [ap |-> c.Ap, err |-> NoErr]
      [] instruction.ApUpdate = "AddImm" ->
           IF Uint64(res).err # NoErr THEN [ap |-> 0, err |-> Uint64(res).err]
           ELSE [ap |-> c.Ap + Uint64(res).val, err |-> NoErr]
      [] instruction.ApUpdate = "Add1" -> [ap |-> c.Ap + 1, err |-> NoErr]
      [] instruction.ApUpdate = "Add2" -> [ap |-> c.Ap + 2, err |-> NoErr]

\* Ret: dst was read; its offset is the new fp
RetFp(rd) ==
    IF rd.err # NoErr THEN [mem |-> rd.mem, fp |-> 0, err |-> rd.err]
    ELSE IF ToMemoryAddress(rd.val).err # NoErr
         THEN [mem |-> rd.mem, fp |-> 0, err |-> ToMemoryAddress(rd.val).err]
    ELSE [mem |-> rd.mem, fp |-> ToMemoryAddress(rd.val).val.Offset, err |-> NoErr]

\* updateFp with a Call leaving fp at ap, below the two cells it wrote
updateFpAtAp(m, c, instruction, dstAddr) ==
    CASE instruction.Opcode = "Call" -> [mem |-> m, fp |-> c.Ap, err |-> NoErr]
      [] instruction.Opcode = "Ret" -> Bind(ReadFromAddress(m, dstAddr), RetFp)
      [] OTHER -> [mem |-> m, fp |-> c.Fp, err |-> NoErr]

updateFp(m, c, instruction, dstAddr) ==
    CASE instruction.Opcode = "Call" -> [mem |-> m, fp |-> c.Ap + 2, err |-> NoErr]
      [] instruction.Opcode = "Ret" -> Bind(ReadFromAddress(m, dstAddr), RetFp)
      [] OTHER -> [mem |-> m, fp |-> c.Fp, err |-> NoErr]

\* what RunInstruction leaves when a stage fails: the context is assigned
\* only when every stage succeeded
InstrFail(m, c, e) == [mem |-> m, ctx |-> c, err |-> e]

\* RunInstruction, stage by stage; each stage gets what the stage before
\* returned
AfterFp(c, pc, ap, nf) ==
    IF nf.err # NoErr THEN InstrFail(nf.mem, c, nf.err)
    ELSE [mem |-> nf.mem, ctx |-> Context(pc, ap, nf.fp), err |-> NoErr]

AfterAp(c, instruction, dstAddr, np, na) ==
    IF na.err # NoErr THEN InstrFail(np.mem, c, na.err)
    ELSE Bind(updateFp(np.mem, c, instruction, dstAddr),
              LAMBDA nf : AfterFp(c, np.pc, na.ap, nf))

AfterPc(c, instruction, dstAddr, res, np) ==
    IF np.err # NoErr THEN InstrFail(np.mem, c, np.err)
    ELSE Bind(updateAp(c, instruction, res),
              LAMBDA na : AfterAp(c, instruction, dstAddr, np, na))

AfterAssertions(c, instruction, dstAddr, op1Addr, res, oa) ==
    IF oa.err # NoErr THEN InstrFail(oa.mem, c, oa.err)
    ELSE Bind(updatePc(oa.mem, c, instruction, dstAddr, op1Addr, res),
              LAMBDA np : AfterPc(c, instruction, dstAddr, res, np))

AfterRes(c, instruction, dstAddr, op0Addr, op1Addr, cr) ==
    IF cr.err # NoErr THEN InstrFail(cr.mem, c, cr.err)
    ELSE Bind(opcodeAssertions(cr.mem, c, instruction, dstAddr, op0Addr, cr.res),
              LAMBDA oa : AfterAssertions(c, instruction, dstAddr, op1Addr, cr.res, oa))

AfterInfer(c, instruction, dstAddr, op0Addr, op1Addr, inf) ==
    IF inf.err # NoErr THEN InstrFail(inf.mem, c, inf.err)
    ELSE IF Known(inf.res)
         THEN AfterRes(c, instruction, dstAddr, op0Addr, op1Addr, inf)
    ELSE Bind(computeRes(inf.mem, instruction, op0Addr, op1Addr),
              LAMBDA cr : AfterRes(c, instruction, dstAddr, op0Addr, op1Addr, cr))

AfterOp1(c, instruction, dstAddr, op0Addr, o1) ==
    IF o1.err # NoErr THEN InstrFail(o1.mem, c, o1.err)
    ELSE Bind(inferOperand(o1.mem, instruction, dstAddr, op0Addr, o1.addr),
              LAMBDA inf : AfterInfer(c, instruction, dstAddr, op0Addr, o1.addr, inf))

AfterOp0(m, c, instruction, dstAddr, o0) ==
    IF o0.err # NoErr THEN InstrFail(m, c, o0.err)
    ELSE Bind(getOp1Addr(m, c, instruction, o0.addr),
              LAMBDA o1 : AfterOp1(c, instruction, dstAddr, o0.addr, o1))

AfterDst(m, c, instruction, d) ==
    IF d.err # NoErr THEN InstrFail(m, c, d.err)
    ELSE Bind(getOp0Addr(c, instruction),
              LAMBDA o0 : AfterOp0(m, c, instruction, d.addr, o0))

RunInstruction(m, c, instruction) ==
    Bind(getDstAddr(c, instruction), LAMBDA d : AfterDst(m, c, instruction, d))

\* no instruction: what a step that failed before decoding has executed
NoInstr == Instr(0, 0, 0, "Ap", "Ap", "Imm", "Op1", "NextInstr", "SameAp", "None")

StepFail(m, c, st, tr, ins, e) ==
    [mem |-> m, ctx |-> c, step |-> st, trace |-> tr, instructions |-> ins,
     instr |-> NoInstr, hintsRun |-> 0, err |-> e]

\* RunStep counting the step whether or not RunInstruction succeeded
SteppedCounting(st, tr, ins, instruction, ri) ==
    [mem |-> ri.mem, ctx |-> ri.ctx, step |-> st + 1,
     trace |-> tr, instructions |-> ins, instr |-> instruction,
     hintsRun |-> 0, err |-> ri.err]

\* RunStep after RunInstruction: the step counter moves only on success
Stepped(st, tr, ins, instruction, ri) ==
    [mem |-> ri.mem, ctx |-> ri.ctx,
     step |-> IF ri.err = NoErr THEN st + 1 ELSE st,
     trace |-> tr, instructions |-> ins, instr |-> instruction,
     hintsRun |-> 0, err |-> ri.err]

\* RunStep with the instruction at hand: the context is appended to the
\* trace before the instruction runs, and stays there when it fails
Execute(m, c, st, tr, ins, pm, instruction) ==
    Bind(RunInstruction(m, c, instruction),
         LAMBDA ri : Stepped(st, IF pm THEN Append(tr, c) ELSE tr, ins, instruction, ri))

\* vm.instructions[offset] = instruction
Cache(ins, offset, instruction) ==
    [o \in (DOMAIN ins) \cup {offset} |-> IF o = offset THEN instruction ELSE ins[o]]

Decoded(m, c, st, tr, ins, pm, dec) ==
    IF dec.err # NoErr THEN StepFail(m, c, st, tr, ins, dec.err)
    ELSE Execute(m, c, st, tr, Cache(ins, c.Pc.Offset, dec.instr), pm, dec.instr)

\* RunStep on a cache miss: the word at pc was read
Fetch(c, st, tr, ins, pm, rd) ==
    IF rd.err # NoErr THEN StepFail(rd.mem, c, st, tr, ins, rd.err)
    ELSE IF ToFieldElement(rd.val).err # NoErr
         THEN StepFail(rd.mem, c, st, tr, ins, ToFieldElement(rd.val).err)
    ELSE Bind(DecodeInstruction(ToFieldElement(rd.val).val),
              LAMBDA dec : Decoded(rd.mem, c, st, tr, ins, pm, dec))

\* RunStep never reads its hintRunner argument: no hint runs.  The cache is
\* keyed by pc.Offset alone.
RunStep(m, c, st, tr, ins, pm, hintRunner) ==
    IF c.Pc.Offset \in DOMAIN ins
    THEN Execute(m, c, st, tr, ins, pm, ins[c.Pc.Offset])
    ELSE Bind(ReadFromAddress(m, c.Pc), LAMBDA rd : Fetch(c, st, tr, ins, pm, rd))

\* Context.Relocate without the shift of pc to a memory indexed from 1
RelocateFromZero(c, executionSegmentOffset) ==
    [Pc |-> c.Pc.Offset, Ap |-> c.Ap + executionSegmentOffset,
     Fp |-> c.Fp + executionSegmentOffset]

\* Context.Relocate and relocateTrace
Relocate(c, executionSegmentOffset) ==
    [Pc |-> c.Pc.Offset + 1, Ap |-> c.Ap + executionSegmentOffset,
     Fp |-> c.Fp + executionSegmentOffset]

relocateTrace(m, tr) ==
    [i \in 1 .. Len(tr) |-> Relocate(tr[i], SegLen(m[ProgramSegment + 1]) + 1)]

ExecutionTrace(m, tr, pm) ==
    IF ~pm THEN [trace |-> <<>>, err |-> "ProofModeOff"]
    ELSE [trace |-> relocateTrace(m, tr), err |-> NoErr]

(***************************************************************************)
(* The proof output.  A byte string is a sequence of numbers in 0 .. 255.  *)
(* A relocated memory ([]*f.Element) is its length and its non-nil         *)
(* elements: cells[i] is *memory[i], and an index below len that cells     *)
(* does not hold is nil.                                                   *)
(***************************************************************************)
ctxSize == 24
addrSize == 8
feltSize == 32

RECURSIVE PutUint(_, _)
\* binary.LittleEndian.PutUint64 / AppendUint64 and f.LittleEndian.PutElement:
\* v in size bytes, the least significant byte first
PutUint(v, size) ==
    IF size = 0 THEN <<>> ELSE <<v % 256>> \o PutUint(v \div 256, size - 1)

RECURSIVE Uint(_)
\* binary.LittleEndian.Uint64: the number whose little-endian bytes are b
Uint(b) == IF b = <<>> THEN 0 ELSE b[1] + 256 * Uint(Tail(b))

\* f.LittleEndian.Element: a number that is not below the modulus is refused
Element(b) ==
    IF Uint(b) >= FieldPrime THEN [val |-> 0, err |-> "InvalidElement"]
    ELSE [val |-> Uint(b), err |-> NoErr]

RECURSIVE EncodeTracePcFirst(_)
\* EncodeTrace with the registers in the order of the Trace struct
EncodeTracePcFirst(tr) ==
    IF tr = <<>> THEN <<>>
    ELSE PutUint(Head(tr).Pc, 8) \o PutUint(Head(tr).Fp, 8) \o PutUint(Head(tr).Ap, 8)
             \o EncodeTracePcFirst(Tail(tr))

RECURSIVE EncodeTrace(_)
EncodeTrace(tr) ==
    IF tr = <<>> THEN <<>>
    ELSE PutUint(Head(tr).Ap, 8) \o PutUint(Head(tr).Fp, 8) \o PutUint(Head(tr).Pc, 8)
             \o EncodeTrace(Tail(tr))

RECURSIVE DecodeTraceFrom(_, _, _)
\* the loop of DecodeTrace at index i; slicing past the end of content panics
DecodeTraceFrom(content, i, tr) ==
    IF i >= Len(content) THEN [trace |-> tr, err |-> NoErr]
    ELSE IF i + ctxSize > Len(content) THEN [trace |-> tr, err |-> "OutOfRange"]
    ELSE DecodeTraceFrom(content, i + ctxSize,
                         Append(tr, [Ap |-> Uint(SubSeq(content, i + 1, i + 8)),
                                     Fp |-> Uint(SubSeq(content, i + 9, i + 16)),
                                     Pc |-> Uint(SubSeq(content, i + 17, i + 24))]))

DecodeTrace(content) == DecodeTraceFrom(content, 0, <<>>)

\* make([]*f.Element, len): every element nil
NilMemory(len) == [len |-> len, cells |-> [i \in {} |-> 0]]

\* memory[i] = &felt
SetElement(memory, i, felt) ==
    [memory EXCEPT !.cells = [j \in (DOMAIN memory.cells) \cup {i} |->
                                 IF j = i THEN felt ELSE memory.cells[j]]]

RECURSIVE EncodeMemoryFrom(_, _)
\* the second loop of EncodeMemory at index i: a record for a non-nil element
EncodeMemoryFrom(memory, i) ==
    IF i >= memory.len THEN <<>>
    ELSE IF i \notin DOMAIN memory.cells THEN EncodeMemoryFrom(memory, i + 1)
    ELSE PutUint(i, addrSize) \o PutUint(memory.cells[i], feltSize)
             \o EncodeMemoryFrom(memory, i + 1)

EncodeMemory(memory) == EncodeMemoryFrom(memory, 0)

MemoryFail(e) == [memory |-> NilMemory(0), err |-> e]

\* DecodeMemory: one record was read
DecodedRecord(memory, memIndex, felt) ==
    IF felt.err # NoErr THEN MemoryFail(felt.err)
    ELSE IF memIndex >= memory.len THEN MemoryFail("OutOfRange")
    ELSE [memory |-> SetElement(memory, memIndex, felt.val), err |-> NoErr]

RECURSIVE DecodeMemoryFrom(_, _, _)
\* the loop of DecodeMemory at index i
DecodeMemoryFrom(content, i, memory) ==
    IF i >= Len(content) THEN [memory |-> memory, err |-> NoErr]
    ELSE IF i + addrSize + feltSize > Len(content) THEN MemoryFail("OutOfRange")
    ELSE Bind(DecodedRecord(memory, Uint(SubSeq(content, i + 1, i + addrSize)),
                            Element(SubSeq(content, i + addrSize + 1,
                                           i + addrSize + feltSize))),
              LAMBDA d : IF d.err # NoErr THEN d
                         ELSE DecodeMemoryFrom(content, i + addrSize + feltSize,
                                               d.memory))

\* DecodeMemory reads the address of the last record first: with no record
\* there the slice starts below zero and the call panics
DecodeMemory(content) ==
    IF Len(content) - (addrSize + feltSize) < 0 THEN MemoryFail("OutOfRange")
    ELSE DecodeMemoryFrom(
             content, 0,
             NilMemory(Uint(SubSeq(content, Len(content) - (addrSize + feltSize) + 1,
                                   Len(content) - feltSize)) + 1))

RECURSIVE SegmentOffset(_, _)
\* the flat index of offset 0 of a segment: 1 plus the logical lengths of
\* the segments before it
SegmentOffset(m, segmentIndex) ==
    IF segmentIndex = 0 THEN 1
    ELSE SegmentOffset(m, segmentIndex - 1) + SegLen(m[segmentIndex])

\* the cells of the concatenated segments that hold a known value
Populated(m) ==
    {p \in UNION {{<<s, o>> : o \in DOMAIN m[s + 1].data} : s \in 0 .. Len(m) - 1} :
        p[2] < SegLen(m[p[1] + 1])}

\* a known value as a felt of the flat memory: an address becomes its flat
\* index
RelocatedValue(m, mv) ==
    IF IsAddress(mv)
    THEN (IF Allocated(m, mv.seg) THEN (SegmentOffset(m, mv.seg) + mv.val) % FieldPrime
          ELSE mv.val % FieldPrime)
    ELSE mv.val

\* MemoryManager.RelocateMemory: the segments concatenated in order, the cell
\* at (s, o) at flat index 1 + the lengths of the segments before s + o
RelocateMemory(m) ==
    [len |-> SegmentOffset(m, Len(m)),
     cells |-> [i \in {SegmentOffset(m, p[1]) + p[2] : p \in Populated(m)} |->
                   Bind(CHOOSE p \in Populated(m) : SegmentOffset(m, p[1]) + p[2] = i,
                        LAMBDA p : RelocatedValue(m, Cell(m[p[1] + 1], p[2])))]]

(***************************************************************************)
(* Programs.  Every program but Flat programs has the layout               *)
(*     0: call rel 4      __start__                                        *)
(*     2: jmp rel 0       __end__                                          *)
(*     4: the body        main                                             *)
(***************************************************************************)
Symbols(start, end, main) ==
    [Labels |-> [l \in {"__start__", "__end__"} |-> IF l = "__start__" THEN start ELSE end],
     Entrypoints |-> [e \in {"main"} |-> main]]

NoSymbols == [Labels |-> [l \in {} |-> 0], Entrypoints |-> [e \in {} |-> 0]]

Program(bytecode, symbols) ==
    [Bytecode |-> bytecode, Labels |-> symbols.Labels, Entrypoints |-> symbols.Entrypoints]

WithMain(body) == Program(<<W.CallRel, 4, W.JmpRel, 0>> \o body, Symbols(0, 2, 4))

RunnerPrograms ==
    { WithMain(<<W.Ret>>),
      WithMain(<<W.AssertImm, 5, W.Ret>>),
      WithMain(<<W.AssertImm, 5, W.CheckImm, 5, W.Ret>>),
      WithMain(<<W.AssertImm, 5, W.AssertImm, 3, W.Add, W.Ret>>),
      WithMain(<<W.AssertImm, 6, W.AssertImm, 3, W.Mul, W.Ret>>),
      WithMain(<<W.AssertImm, 5, W.CheckImm, 3, W.Ret>>),
      WithMain(<<W.AssertImm, 5, W.AddSame, W.Ret>>),
      WithMain(<<W.AssertImm, 7, W.Jnz, 3, W.Ret, W.Ret>>),
      WithMain(<<W.AssertImm, 0, W.Jnz, 3, W.Ret, W.Ret>>),
      WithMain(<<W.AddAp, 2, W.Ret>>),
      WithMain(<<W.AddAp, 1, W.Jnz, 3, W.Ret, W.Ret>>),
      WithMain(<<W.JmpAbsFp>>),
      Program(<<W.JmpAbsFp>>, Symbols(0, 1, 0)),
      Program(<<W.JmpRel, 0>>, Symbols(0, 0, 0)),
      Program(<<W.Ret>>, NoSymbols) }

StepPrograms ==
    { WithMain(<<W.AssertImm, 5, W.CheckImm, 3, W.Ret>>),
      Program(<<W.AddFp, W.MulFp>>, Symbols(0, 1, 0)),
      Program(<<W.MulFp, W.AddFp>>, Symbols(0, 1, 0)),
      Program(<<W.Jnz, 2, W.Ret>>, Symbols(0, 1, 0)),
      WithMain(<<W.AssertImm, 5, W.Ret>>),
      Program(<<W.JnzFp>>, Symbols(0, 1, 0)) }

\* safemath.NextPowerOfTwo: the least power of two that is at least n
RECURSIVE PowerOfTwoFrom(_, _)
PowerOfTwoFrom(p, n) == IF p >= n THEN p ELSE PowerOfTwoFrom(2 * p, n)
NextPowerOfTwo(n) == PowerOfTwoFrom(1, n)

(***************************************************************************)
(* The runner.                                                             *)
(***************************************************************************)
\* the memory NewRunner builds: the program segment, then the execution
\* segment
NewRunnerMemory(prog) == AllocateEmptySegment(AllocateSegment(<<>>, prog.Bytecode))

InitFail(m, c, e) == [mem |-> m, ctx |-> c, end |-> UnknownValue, err |-> e]

\* InitializeEntrypoint leaving ap and fp at the return fp, below the frame
EntryContextBelowFrame(c, prog, funcName, end, offset, w2) ==
    IF w2.err # NoErr THEN InitFail(w2.mem, c, w2.err)
    ELSE IF funcName \notin DOMAIN prog.Entrypoints
         THEN InitFail(w2.mem, c, "UnknownEntrypoint")
    ELSE [mem |-> w2.mem,
          ctx |-> Context(MemoryAddress(ProgramSegment, prog.Entrypoints[funcName]),
                          offset, offset),
          end |-> end, err |-> NoErr]

\* InitializeEntrypoint after the end address was written
EntryContext(c, prog, funcName, end, offset, w2) ==
    IF w2.err # NoErr THEN InitFail(w2.mem, c, w2.err)
    ELSE IF funcName \notin DOMAIN prog.Entrypoints
         THEN InitFail(w2.mem, c, "UnknownEntrypoint")
    ELSE [mem |-> w2.mem,
          ctx |-> Context(MemoryAddress(ProgramSegment, prog.Entrypoints[funcName]),
                          offset + 2, offset + 2),
          end |-> end, err |-> NoErr]

\* InitializeEntrypoint after the return fp was written
EntryEnd(c, prog, funcName, end, offset, w1) ==
    IF w1.err # NoErr THEN InitFail(w1.mem, c, w1.err)
    ELSE Bind(MemoryWrite(w1.mem, ExecutionSegment, offset + 1,
                          MemoryValueFromMemoryAddress(end)),
              LAMBDA w2 : EntryContext(c, prog, funcName, end, offset, w2))

\* InitializeEntrypoint after the arguments were written: the return fp goes
\* to the execution segment's Len(); the end segment is the last one allocated
EntryFrame(c, prog, funcName, returnFp, offset, m1) ==
    Bind(MemoryWrite(m1, ExecutionSegment, offset, returnFp),
         LAMBDA w1 : EntryEnd(c, prog, funcName, MemoryAddress(Len(m1) - 1, 0),
                              offset, w1))

RECURSIVE WriteArguments(_, _, _)
\* the loop of InitializeEntrypoint: arguments[i] written at execution offset
\* i - 1, up to the first write that fails
WriteArguments(m, arguments, i) ==
    IF i > Len(arguments) THEN [mem |-> m, err |-> NoErr]
    ELSE Bind(MemoryWrite(m, ExecutionSegment, i - 1, Felt(arguments[i])),
              LAMBDA w : IF w.err # NoErr THEN w
                         ELSE WriteArguments(w.mem, arguments, i + 1))

\* InitializeEntrypoint after the loop over the arguments
EntryArguments(c, prog, funcName, returnFp, wa) ==
    IF wa.err # NoErr THEN InitFail(wa.mem, c, wa.err)
    ELSE EntryFrame(c, prog, funcName, returnFp,
                    SegLen(wa.mem[ExecutionSegment + 1]), wa.mem)

InitializeEntrypoint(m, c, prog, funcName, arguments, returnFp) ==
    Bind(AllocateEmptySegment(m),
         LAMBDA m1 : Bind(WriteArguments(m1, arguments, 1),
                          LAMBDA wa : EntryArguments(c, prog, funcName, returnFp, wa)))

\* proof mode, after the zero was written below the dummy fp
ProofContext(c, prog, offset, w2) ==
    IF w2.err # NoErr THEN InitFail(w2.mem, c, w2.err)
    ELSE [mem |-> w2.mem,
          ctx |-> Context(MemoryAddress(ProgramSegment, prog.Labels["__start__"]),
                          offset + 2, offset + 2),
          end |-> MemoryAddress(ProgramSegment, prog.Labels["__end__"]),
          err |-> NoErr]

\* proof mode, after the dummy fp was written
ProofFrame(c, prog, offset, w1) ==
    IF w1.err # NoErr THEN InitFail(w1.mem, c, w1.err)
    ELSE Bind(MemoryWrite(w1.mem, ExecutionSegment, offset + 1, Felt(0)),
              LAMBDA w2 : ProofContext(c, prog, offset, w2))

\* the other mode: the return fp points at a segment of its own
MainFrame(c, prog, m1) ==
    InitializeEntrypoint(m1, c, prog, "main", <<>>,
                         MemoryValueFromSegmentAndOffset(Len(m1) - 1, 0))

InitializeMainEntrypoint(m, c, prog, pm) ==
    IF pm
    THEN IF "__start__" \notin DOMAIN prog.Labels \/ "__end__" \notin DOMAIN prog.Labels
         THEN InitFail(m, c, "MissingLabel")
         ELSE Bind(MemoryWrite(m, ExecutionSegment, SegLen(m[ExecutionSegment + 1]),
                               MemoryValueFromSegmentAndOffset(
                                   ProgramSegment,
                                   SegLen(m[ProgramSegment + 1])
                                       + SegLen(m[ExecutionSegment + 1]) + 2)),
                   LAMBDA w1 : ProofFrame(c, prog, SegLen(m[ExecutionSegment + 1]), w1))
    ELSE Bind(AllocateEmptySegment(m), LAMBDA m1 : MainFrame(c, prog, m1))

\* the step limit tested one step too late
StepLimitPassed(st, limit) == st > limit

\* the test at the head of the loops of RunUntilPc and RunFor
StepLimitReached(st, limit) == st >= limit

\* the loop of RunUntilPc comparing offsets only
UntilOffsetContinues(pc, end) == pc.Offset # end.Offset

\* whether the loop of RunUntilPc goes on for another iteration
UntilPcContinues(pc, end) == pc # end

\* whether the loop of RunFor goes on for another iteration
RunForContinues(st, steps) == st < steps

(***************************************************************************)
(* The calls recorded in last: what the latest call was given and what it  *)
(* returned.                                                               *)
(***************************************************************************)
Call(kind, seg, off, val, ret, err, c, instr, hint, hintsRun, name, args) ==
    [kind |-> kind, seg |-> seg, off |-> off, val |-> val, ret |-> ret, err |-> err,
     ctx |-> c, instr |-> instr, hint |-> hint, hintsRun |-> hintsRun,
     name |-> name, args |-> args]

NoCall == Call("none", 0, 0, UnknownMV, UnknownMV, NoErr, Context(UnknownValue, 0, 0),
               NoInstr, "nil", 0, "", <<>>)
RunCall(kind, err, c) ==
    Call(kind, 0, 0, UnknownMV, UnknownMV, err, c, NoInstr, "nil", 0, "", <<>>)
StepCall(kind, r, c, hint) ==
    Call(kind, 0, 0, UnknownMV, UnknownMV, r.err, c, r.instr, hint, r.hintsRun, "", <<>>)
ApiCall(kind, seg, off, val, ret, err) ==
    Call(kind, seg, off, val, ret, err, ctx, NoInstr, "nil", 0, "", <<>>)
\* an InitializeEntrypoint call: the name, the arguments and the return fp
EntryCall(funcName, arguments, returnFp, err) ==
    Call("InitializeEntrypoint", 0, 0, returnFp, UnknownMV, err, ctx, NoInstr, "nil", 0,
         funcName, arguments)

\* the calls recorded in proof: the relocated trace and memory of the call,
\* their encodings, and what decoding returned
Proof(kind, tr, memory, traceContent, memoryContent, decodedTrace, decodedMemory, err) ==
    [kind |-> kind, trace |-> tr, memory |-> memory, traceContent |-> traceContent,
     memoryContent |-> memoryContent, decodedTrace |-> decodedTrace,
     decodedMemory |-> decodedMemory, err |-> err]

NoProof == Proof("none", <<>>, NilMemory(0), <<>>, <<>>, <<>>, NilMemory(0), NoErr)

(***************************************************************************)
(* Initial states: a runner as NewRunner returns it.                       *)
(***************************************************************************)
SmallMaxSteps == 3
LargeMaxSteps == 8

Fresh(prog) ==
    /\ program = prog
    /\ runFinished = FALSE
    /\ mem = NewRunnerMemory(prog)
    /\ ctx = Context(MemoryAddress(0, 0), 0, 0)
    /\ step = 0
    /\ trace = <<>>
    /\ instructions = [o \in {} |-> NoInstr]
    /\ rpc = "idle"
    /\ endPc = UnknownValue
    /\ target = 0
    /\ last = NoCall
    /\ apiCalls = 0
    /\ runCalls = 0
    /\ runsReturned = 0
    /\ stepCalls = 0
    /\ stepsInCall = 0
    /\ reached = 0
    /\ entryCalls = 0

Init ==
    /\ \E prog \in RunnerPrograms : Fresh(prog)
    /\ proof = NoProof
    /\ proofmode \in BOOLEAN
    /\ maxsteps \in {SmallMaxSteps, LargeMaxSteps}
    /\ unknownArith \in {"zero", "error"}

(***************************************************************************)
(* Run, as a caller of the runner invokes it.  rpc is the place Run has    *)
(* reached: idle (not in Run), in the loop of RunUntilPc, in the loop of   *)
(* RunFor(1), in the loop of RunFor(pow2Steps).                            *)
(***************************************************************************)
\* Run returns err to its caller
RunReturns(err) ==
    /\ rpc' = "idle"
    /\ last' = RunCall("Run", err, ctx)
    /\ runsReturned' = runsReturned + 1

\* the state after vm.RunStep(nil) in a loop; an error ends Run
LoopStepDone(r) ==
    /\ mem' = r.mem
    /\ ctx' = r.ctx
    /\ step' = r.step
    /\ trace' = r.trace
    /\ instructions' = r.instructions
    /\ stepsInCall' = stepsInCall + 1
    /\ IF r.err # NoErr
       THEN /\ rpc' = "idle"
            /\ last' = StepCall("Run", r, ctx, "nil")
            /\ runsReturned' = runsReturned + 1
       ELSE /\ last' = StepCall("LoopStep", r, ctx, "nil")
            /\ UNCHANGED <<rpc, runsReturned>>

LoopStep ==
    \E r \in {RunStep(mem, ctx, step, trace, instructions, proofmode, "nil")} :
        LoopStepDone(r)

\* Run after InitializeMainEntrypoint returned
RunInitialized(i) ==
    /\ mem' = i.mem
    /\ ctx' = i.ctx
    /\ IF i.err # NoErr
       THEN /\ RunReturns(i.err)
            /\ UNCHANGED endPc
       ELSE /\ rpc' = "RunUntilPc"
            /\ endPc' = i.end
            /\ last' = RunCall("RunBegin", NoErr, ctx)
            /\ UNCHANGED runsReturned

\* Run up to its call of RunUntilPc.  runFinished is read here and assigned
\* nowhere.
Run ==
    /\ rpc = "idle"
    /\ runCalls < MaxRunCalls
    /\ runCalls' = runCalls + 1
    /\ stepsInCall' = 0
    /\ IF runFinished
       THEN /\ RunReturns("ReRun")
            /\ UNCHANGED <<mem, ctx, endPc>>
       ELSE \E i \in {InitializeMainEntrypoint(mem, ctx, program, proofmode)} :
               RunInitialized(i)
    /\ UNCHANGED <<program, proofmode, maxsteps, runFinished, step, trace, instructions,
                   target, unknownArith, apiCalls, stepCalls, reached, entryCalls, proof>>

\* one pass through the loop of RunUntilPc, and what Run does when the loop ends
RunUntilPc ==
    /\ rpc = "RunUntilPc"
    /\ IF ~UntilPcContinues(ctx.Pc, endPc)
       THEN /\ reached' = step
            /\ IF proofmode
               THEN /\ rpc' = "RunFor1"
                    /\ target' = 1
                    /\ last' = RunCall("RunUntilPcReturns", NoErr, ctx)
                    /\ UNCHANGED runsReturned
               ELSE /\ RunReturns(NoErr)
                    /\ UNCHANGED target
            /\ UNCHANGED <<mem, ctx, step, trace, instructions, stepsInCall>>
       ELSE IF StepLimitReached(step, maxsteps)
       THEN /\ RunReturns("MaxStepsExceeded")
            /\ UNCHANGED <<mem, ctx, step, trace, instructions, target, reached,
                           stepsInCall>>
       ELSE /\ LoopStep
            /\ UNCHANGED <<target, reached>>
    /\ UNCHANGED <<program, proofmode, maxsteps, runFinished, endPc, unknownArith,
                   apiCalls, runCalls, stepCalls, entryCalls, proof>>

\* one pass through the loop of RunFor, and what Run does when the loop ends:
\* after RunFor(1) it calls RunFor(NextPowerOfTwo(vm.Step)), after that it
\* returns nil
RunFor ==
    /\ rpc \in {"RunFor1", "RunForPow2"}
    /\ IF ~RunForContinues(step, target)
       THEN /\ IF rpc = "RunFor1"
               THEN /\ rpc' = "RunForPow2"
                    /\ target' = NextPowerOfTwo(step)
                    /\ last' = RunCall("RunForReturns", NoErr, ctx)
                    /\ UNCHANGED runsReturned
               ELSE /\ RunReturns(NoErr)
                    /\ UNCHANGED target
            /\ UNCHANGED <<mem, ctx, step, trace, instructions, stepsInCall>>
       ELSE IF StepLimitReached(step, maxsteps)
       THEN /\ RunReturns("MaxStepsExceeded")
            /\ UNCHANGED <<mem, ctx, step, trace, instructions, target, stepsInCall>>
       ELSE /\ LoopStep
            /\ UNCHANGED target
    /\ UNCHANGED <<program, proofmode, maxsteps, runFinished, endPc, unknownArith,
                   apiCalls, runCalls, stepCalls, reached, entryCalls, proof>>

\* BuildProof after ExecutionTrace returned
ProofBuilt(et) ==
    IF et.err # NoErr
    THEN proof' = Proof("BuildProof", <<>>, NilMemory(0), <<>>, <<>>, <<>>,
                        NilMemory(0), et.err)
    ELSE \E memory \in {RelocateMemory(mem)} :
            proof' = Proof("BuildProof", et.trace, memory, EncodeTrace(et.trace),
                           EncodeMemory(memory), <<>>, NilMemory(0), NoErr)

\* runner.BuildProof, as a caller invokes it outside Run
BuildProof ==
    /\ rpc = "idle"
    /\ \E et \in {ExecutionTrace(mem, trace, proofmode)} : ProofBuilt(et)
    /\ UNCHANGED <<program, proofmode, maxsteps, runFinished, mem, ctx, step, trace,
                   instructions, rpc, endPc, target, unknownArith, last, apiCalls,
                   runCalls, runsReturned, stepCalls, stepsInCall, reached, entryCalls>>

Next == Run \/ RunUntilPc \/ RunFor \/ BuildProof

Spec == Init /\ [][Next]_vars

\* Run is one synchronous call: once entered, its loops keep running
FairSpec == Spec /\ WF_vars(RunUntilPc) /\ WF_vars(RunFor)

(***************************************************************************)
(* The runner's parts as a caller drives them one call at a time: the      *)
(* memory API, InitializeMainEntrypoint and single RunStep calls.          *)
(***************************************************************************)
\* the values and hint runners a caller passes
ApiValues == {Felt(0), Felt(5), Addr(ExecutionSegment, 1)}
HintRunners == {"nil", "hint"}

InitStep ==
    /\ \E prog \in StepPrograms : Fresh(prog)
    /\ proof = NoProof
    /\ proofmode \in BOOLEAN
    /\ maxsteps = LargeMaxSteps
    /\ unknownArith \in {"zero", "error"}

ApiFrame ==
    UNCHANGED <<program, proofmode, maxsteps, runFinished, ctx, step, trace,
                instructions, rpc, endPc, target, unknownArith, runCalls,
                runsReturned, stepCalls, stepsInCall, reached, entryCalls, proof>>

WriteDone(segmentIndex, offset, value, w) ==
    /\ mem' = w.mem
    /\ last' = ApiCall("Write", segmentIndex, offset, value, UnknownMV, w.err)

\* Memory.Write
Write ==
    /\ apiCalls < MaxApiCalls
    /\ apiCalls' = apiCalls + 1
    /\ \E segmentIndex \in 0 .. Len(mem), offset \in 0 .. MaxApiOffset,
          value \in ApiValues :
          \E w \in {MemoryWrite(mem, segmentIndex, offset, value)} :
              WriteDone(segmentIndex, offset, value, w)
    /\ ApiFrame

ReadDone(kind, segmentIndex, offset, r) ==
    /\ mem' = r.mem
    /\ last' = ApiCall(kind, segmentIndex, offset, UnknownMV, r.val, r.err)

\* Memory.Read
Read ==
    /\ apiCalls < MaxApiCalls
    /\ apiCalls' = apiCalls + 1
    /\ \E segmentIndex \in 0 .. Len(mem), offset \in 0 .. MaxApiOffset :
          \E r \in {MemoryRead(mem, segmentIndex, offset)} :
              ReadDone("Read", segmentIndex, offset, r)
    /\ ApiFrame

\* Memory.Peek
Peek ==
    /\ apiCalls < MaxApiCalls
    /\ apiCalls' = apiCalls + 1
    /\ \E segmentIndex \in 0 .. Len(mem), offset \in 0 .. MaxApiOffset :
          \E r \in {MemoryPeek(mem, segmentIndex, offset)} :
              ReadDone("Peek", segmentIndex, offset, r)
    /\ ApiFrame

EntrypointDone(i) ==
    /\ mem' = i.mem
    /\ ctx' = i.ctx
    /\ endPc' = i.end
    /\ last' = RunCall("InitializeMainEntrypoint", i.err, ctx)

\* runner.InitializeMainEntrypoint, called once and before any step
CallInitializeMainEntrypoint ==
    /\ last.kind = "none"
    /\ \E i \in {InitializeMainEntrypoint(mem, ctx, program, proofmode)} :
          EntrypointDone(i)
    /\ UNCHANGED <<program, proofmode, maxsteps, runFinished, step, trace, instructions,
                   rpc, target, unknownArith, apiCalls, runCalls, runsReturned,
                   stepCalls, stepsInCall, reached, entryCalls, proof>>

RunStepDone(hintRunner, r) ==
    /\ mem' = r.mem
    /\ ctx' = r.ctx
    /\ step' = r.step
    /\ trace' = r.trace
    /\ instructions' = r.instructions
    /\ last' = StepCall("RunStep", r, ctx, hintRunner)

\* vm.RunStep(hintRunner)
CallRunStep ==
    /\ stepCalls < MaxStepCalls
    /\ stepCalls' = stepCalls + 1
    /\ \E hintRunner \in HintRunners :
          \E r \in {RunStep(mem, ctx, step, trace, instructions, proofmode,
                             hintRunner)} :
              RunStepDone(hintRunner, r)
    /\ UNCHANGED <<program, proofmode, maxsteps, runFinished, rpc, endPc, target,
                   unknownArith, apiCalls, runCalls, runsReturned, stepsInCall, reached,
                   entryCalls, proof>>

NextStep == Write \/ Read \/ Peek \/ CallInitializeMainEntrypoint \/ CallRunStep

SpecStep == InitStep /\ [][NextStep]_vars

(***************************************************************************)
(* A memory one of whose segments has a builtin runner that validates      *)
(* writes, as a caller sets it up with WithBuiltinRunner, and the calls of *)
(* the memory API on it.                                                   *)
(***************************************************************************)
InitBuiltin ==
    /\ \E prog \in {Program(<<W.Ret>>, NoSymbols)} : Fresh(prog)
    /\ proof = NoProof
    /\ proofmode = FALSE
    /\ maxsteps = SmallMaxSteps
    /\ unknownArith = "error"

\* memory.AllocateEmptySegment(), then WithBuiltinRunner on the new segment
CallWithBuiltinRunner ==
    /\ Len(mem) = ExecutionSegment + 1
    /\ mem' = SetSegment(AllocateEmptySegment(mem), Len(mem),
                         WithBuiltinRunner(EmptySegment, "FeltsOnly"))
    /\ UNCHANGED <<program, proofmode, maxsteps, runFinished, ctx, step, trace,
                   instructions, rpc, endPc, target, unknownArith, last, apiCalls,
                   runCalls, runsReturned, stepCalls, stepsInCall, reached, entryCalls,
                   proof>>

NextBuiltin == CallWithBuiltinRunner \/ Write \/ Read \/ Peek

SpecBuiltin == InitBuiltin /\ [][NextBuiltin]_vars

(***************************************************************************)
(* The entrypoint initialisation as a caller drives it: on a runner whose  *)
(* memory the caller may have used, InitializeMainEntrypoint or            *)
(* InitializeEntrypoint is called.                                         *)
(***************************************************************************)
\* number of entrypoint initialisations a caller makes on one runner
MaxEntryCalls == 1

\* programs with both proof-mode labels, with one, with none
EntryPrograms ==
    { WithMain(<<W.Ret>>),
      Program(<<W.AssertImm, 5, W.Ret>>,
              [Labels |-> [l \in {"__start__"} |-> 0], Entrypoints |-> [e \in {"main"} |-> 0]]),
      Program(<<W.Ret>>, NoSymbols) }

\* what a caller passes to InitializeEntrypoint
EntryNames == {"main", "other"}
EntryArgumentLists == {<<>>, <<5>>, <<5, 7>>}
EntryReturnFps == {Felt(5), Addr(ExecutionSegment, 1)}

InitEntry ==
    /\ \E prog \in EntryPrograms : Fresh(prog)
    /\ proof = NoProof
    /\ proofmode \in BOOLEAN
    /\ maxsteps = LargeMaxSteps
    /\ unknownArith = "error"

EntryFrameUnchanged ==
    UNCHANGED <<program, proofmode, maxsteps, runFinished, step, trace, instructions,
                rpc, target, unknownArith, apiCalls, runCalls, runsReturned,
                stepCalls, stepsInCall, reached, proof>>

\* runner.InitializeMainEntrypoint, whatever the caller did before
CallInitializeMainEntrypointLate ==
    /\ entryCalls < MaxEntryCalls
    /\ entryCalls' = entryCalls + 1
    /\ \E i \in {InitializeMainEntrypoint(mem, ctx, program, proofmode)} :
          EntrypointDone(i)
    /\ EntryFrameUnchanged

NamedEntrypointDone(funcName, arguments, returnFp, i) ==
    /\ mem' = i.mem
    /\ ctx' = i.ctx
    /\ endPc' = i.end
    /\ last' = EntryCall(funcName, arguments, returnFp, i.err)

\* runner.InitializeEntrypoint(funcName, arguments, returnFp)
CallInitializeEntrypoint ==
    /\ entryCalls < MaxEntryCalls
    /\ entryCalls' = entryCalls + 1
    /\ \E funcName \in EntryNames, arguments \in EntryArgumentLists,
          returnFp \in EntryReturnFps :
          \E i \in {InitializeEntrypoint(mem, ctx, program, funcName, arguments,
                                         returnFp)} :
              NamedEntrypointDone(funcName, arguments, returnFp, i)
    /\ EntryFrameUnchanged

NextEntry ==
    Write \/ Read \/ Peek \/ CallInitializeMainEntrypointLate \/ CallInitializeEntrypoint

SpecEntry == InitEntry /\ [][NextEntry]_vars

(***************************************************************************)
(* The codec of the proof output as a caller uses it: a relocated trace or *)
(* memory is encoded, and the bytes are decoded again.                     *)
(***************************************************************************)
\* longest relocated trace a caller encodes
MaxTraceLen == 2
\* longest relocated memory a caller encodes
MaxMemoryLen == 4

\* the register values of the traces: one, two and three significant bytes
TraceWords == {0, 255, 65793}
Traces ==
    UNION {[1 .. n -> [Ap : TraceWords, Fp : TraceWords, Pc : TraceWords]] :
              n \in 0 .. MaxTraceLen}

\* the felts of the memories, and the memories: any subset of the indices
\* below the length holds a felt
MemoryFelts == {0, 1, FieldPrime - 1}
Memories ==
    UNION {{[len |-> n, cells |-> c] :
               c \in UNION {[S -> MemoryFelts] : S \in SUBSET (0 .. n - 1)}} :
              n \in 0 .. MaxMemoryLen}

\* what the caller holds before a codec call: a trace or a memory
Held(tr, memory) == Proof("held", tr, memory, <<>>, <<>>, <<>>, NilMemory(0), NoErr)

InitCodec ==
    /\ \E prog \in {Program(<<W.Ret>>, NoSymbols)} : Fresh(prog)
    /\ \/ \E tr \in Traces : proof = Held(tr, NilMemory(0))
       \/ \E memory \in Memories : proof = Held(<<>>, memory)
    /\ proofmode = FALSE
    /\ maxsteps = SmallMaxSteps
    /\ unknownArith = "error"

CodecFrame ==
    UNCHANGED <<program, proofmode, maxsteps, runFinished, mem, ctx, step, trace,
                instructions, rpc, endPc, target, unknownArith, last, apiCalls,
                runCalls, runsReturned, stepCalls, stepsInCall, reached, entryCalls>>

CallEncodeTrace ==
    /\ proof.kind = "held"
    /\ proof' = [proof EXCEPT !.kind = "EncodeTrace",
                              !.traceContent = EncodeTrace(proof.trace)]
    /\ CodecFrame

\* DecodeTrace on the bytes EncodeTrace returned
CallDecodeTrace ==
    /\ proof.kind = "EncodeTrace"
    /\ \E d \in {DecodeTrace(proof.traceContent)} :
          proof' = [proof EXCEPT !.kind = "DecodeTrace", !.decodedTrace = d.trace,
                                 !.err = d.err]
    /\ CodecFrame

CallEncodeMemory ==
    /\ proof.kind = "held"
    /\ proof' = [proof EXCEPT !.kind = "EncodeMemory",
                              !.memoryContent = EncodeMemory(proof.memory)]
    /\ CodecFrame

\* DecodeMemory on the bytes EncodeMemory returned
CallDecodeMemory ==
    /\ proof.kind = "EncodeMemory"
    /\ \E d \in {DecodeMemory(proof.memoryContent)} :
          proof' = [proof EXCEPT !.kind = "DecodeMemory", !.decodedMemory = d.memory,
                                 !.err = d.err]
    /\ CodecFrame

NextCodec == CallEncodeTrace \/ CallDecodeTrace \/ CallEncodeMemory \/ CallDecodeMemory

SpecCodec == InitCodec /\ [][NextCodec]_vars

(***************************************************************************)
(* Properties of the memory.                                               *)
(***************************************************************************)
\* the cell the latest memory API call addressed, before and after the call
CellBefore == IF Allocated(mem, last'.seg) THEN Cell(mem[last'.seg + 1], last'.off)
              ELSE UnknownMV
CellAfter == IF Allocated(mem', last'.seg) THEN Cell(mem'[last'.seg + 1], last'.off)
             ELSE UnknownMV

\* a Write that directly follows a successful Write to the same cell
WriteAfterWrite ==
    /\ last.kind = "Write" /\ last.err = NoErr
    /\ last'.kind = "Write" /\ last'.seg = last.seg /\ last'.off = last.off
    /\ apiCalls' = apiCalls + 1

\* C1: single assignment.  After write(S, o, v1) succeeded, the cell holds
\* v1; a later write(S, o, v2) to a cell holding v1 fails with the
\* rewriting-cell error when v1 # v2 and succeeds when v1 = v2, and in both
\* cases the cell still holds v1.
C1_RewriteIffDifferent ==
    [][/\ (last'.kind = "Write" /\ apiCalls' = apiCalls + 1 /\ last'.err = NoErr)
            => CellAfter = last'.val
       /\ (last'.kind = "Write" /\ apiCalls' = apiCalls + 1 /\ Known(CellBefore))
            => /\ last'.err = (IF last'.val # CellBefore THEN "RewriteCell" ELSE NoErr)
               /\ CellAfter = CellBefore
       /\ WriteAfterWrite
            => last'.err = (IF last'.val # last.val THEN "RewriteCell" ELSE NoErr)]_vars

\* a second API call, a Write, was refused as a rewrite
C1_Witness ==
    /\ last.kind = "Write" /\ last.err = "RewriteCell"
    /\ apiCalls = MaxApiCalls

\* C2: write-once memory.  No call (Write, Read, Peek, InitializeMainEntrypoint,
\* a RunStep that succeeds or fails) changes a cell that holds a known value,
\* and no segment goes away: a cell keeps the value of the operation that
\* first made it known.
C2_KnownCellsKeepTheirValue ==
    [][/\ Len(mem') >= Len(mem)
       /\ \A s \in 1 .. Len(mem) : \A o \in DOMAIN mem[s].data :
             Known(mem[s].data[o]) => Cell(mem'[s], o) = mem[s].data[o]]_vars

\* a step failed on a rewrite after the caller had written cells itself
C2_Witness ==
    /\ last.kind = "RunStep" /\ last.err = "RewriteCell"
    /\ apiCalls > 0

(***************************************************************************)
(* Properties of a step.                                                   *)
(***************************************************************************)
\* read(dst) = read(op0) op read(op1), the three cells read in this order
C3_Relation(instruction, rd, r0, r1) ==
    /\ rd.err = NoErr /\ r0.err = NoErr /\ r1.err = NoErr
    /\ IF instruction.Res = "AddOperands"
       THEN MVAdd(r0.val, r1.val) = MVOk(rd.val)
       ELSE MVMul(r0.val, r1.val) = MVOk(rd.val)

C3_ReadOp1(instruction, op1Addr, rd, r0) ==
    \E r1 \in {ReadFromAddress(r0.mem, op1Addr)} : C3_Relation(instruction, rd, r0, r1)

C3_ReadOp0(instruction, op0Addr, op1Addr, rd) ==
    \E r0 \in {ReadFromAddress(rd.mem, op0Addr)} :
        C3_ReadOp1(instruction, op1Addr, rd, r0)

C3_ReadDst(c, instruction, dstAddr, op0Addr) ==
    \E rd \in {ReadFromAddress(mem, dstAddr)} :
        C3_ReadOp0(instruction, op0Addr,
                   getOp1Addr(mem, c, instruction, op0Addr).addr, rd)

C5_TraceLengthIsStep ==
    proofmode => Len(ExecutionTrace(mem, trace, proofmode).trace) = step

\* C8: a RunStep call that is given a hint runner runs it exactly once.
C8_HintRunsOncePerStep ==
    (last.kind = "RunStep" /\ last.hint # "nil") => last.hintsRun = 1

(***************************************************************************)
(* Properties of the runner.                                               *)
(***************************************************************************)
IsPowerOfTwo(n) == \E e \in 0 .. LargeMaxSteps : n = 2 ^ e

\* C4: a first proof-mode Run that returns nil leaves a step count that is a
\* power of two and at least k + 1, k the step count at which pc first
\* equalled the end pc.
C4_ProofPadding ==
    (/\ proofmode /\ runCalls = 1
     /\ rpc = "idle" /\ last.kind = "Run" /\ last.err = NoErr)
    => (IsPowerOfTwo(step) /\ step >= reached + 1)

\* a loop of Run is at its head and needs another step
LoopNeedsStep ==
    \/ rpc = "RunUntilPc" /\ UntilPcContinues(ctx.Pc, endPc)
    \/ rpc \in {"RunFor1", "RunForPow2"} /\ RunForContinues(step, target)

\* C6: the step counter never exceeds max_steps, and a loop that needs a step
\* when the counter has reached max_steps returns the max-step-limit error
\* without running the step.
C6_StepCap ==
    /\ [](step <= maxsteps)
    /\ [][(LoopNeedsStep /\ step >= maxsteps)
            => /\ rpc' = "idle" /\ last'.kind = "Run"
               /\ last'.err = "MaxStepsExceeded"
               /\ UNCHANGED <<mem, ctx, step, trace, stepsInCall>>]_vars

\* Run returned the max-step-limit error with the counter at max_steps
C6_Witness ==
    /\ rpc = "idle" /\ last.kind = "Run" /\ last.err = "MaxStepsExceeded"
    /\ step = maxsteps

\* C7: once Run has returned, a later Run on the same runner returns the
\* re-run error and runs no step.
C7_NoReuse ==
    runCalls > 1
    => (rpc = "idle" /\ last.kind = "Run" /\ last.err = "ReRun" /\ stepsInCall = 0)

\* C9: after every successful step of a run that has not reached the end pc,
\* pc is in the program segment.
C9_PcInProgramSegment ==
    (rpc # "idle" /\ last.kind = "LoopStep" /\ ctx.Pc # endPc)
    => ctx.Pc.SegmentIndex = ProgramSegment

\* RunUntilPc returns nil to Run
UntilPcSucceeds ==
    /\ rpc = "RunUntilPc"
    /\ \/ rpc' = "RunFor1"
       \/ rpc' = "idle" /\ last'.kind = "Run" /\ last'.err = NoErr

\* C10: RunUntilPc(end) terminates; when it returns nil, pc = end; it makes
\* at most max_steps RunStep calls; with pc = end, on entry or later, it
\* runs no step.
C10_RunUntilPcTerminates ==
    /\ (rpc = "RunUntilPc") ~> (rpc # "RunUntilPc")
    /\ [](stepsInCall <= maxsteps)
    /\ [][/\ UntilPcSucceeds => (ctx.Pc = endPc /\ ctx' = ctx)
          /\ (rpc = "RunUntilPc" /\ ctx.Pc = endPc)
                => (rpc' # "RunUntilPc"
                    /\ UNCHANGED <<mem, ctx, step, trace, stepsInCall>>)]_vars

\* a Run outside proof mode ran steps and returned nil with pc at the end pc
C10_Witness ==
    /\ rpc = "idle" /\ last.kind = "Run" /\ last.err = NoErr
    /\ ~proofmode /\ stepsInCall > 0 /\ ctx.Pc = endPc

(***************************************************************************)
(* Properties of the proof output.                                         *)
(***************************************************************************)
\* the 8 bytes of content from index i (counted from 0) are v, a number
\* below 2^32, as a little-endian u64
IsUint64At(content, i, v) ==
    \A j \in 0 .. 7 :
        content[i + j + 1] = (IF j <= 3 THEN (v \div (256 ^ j)) % 256 ELSE 0)

\* C11: EncodeTrace emits one 24-byte record per trace entry, in order, laid
\* out as ap, fp, pc, each a little-endian u64, and DecodeTrace returns the
\* encoded trace.
C11_TraceCodec ==
    /\ proof.kind \in {"EncodeTrace", "DecodeTrace"}
         => /\ Len(proof.traceContent) = 24 * Len(proof.trace)
            /\ \A k \in 1 .. Len(proof.trace) :
                  /\ IsUint64At(proof.traceContent, 24 * (k - 1), proof.trace[k].Ap)
                  /\ IsUint64At(proof.traceContent, 24 * (k - 1) + 8, proof.trace[k].Fp)
                  /\ IsUint64At(proof.traceContent, 24 * (k - 1) + 16, proof.trace[k].Pc)
    /\ proof.kind = "DecodeTrace"
         => (proof.err = NoErr /\ proof.decodedTrace = proof.trace)

\* a trace of two entries whose registers differ went through the round trip
C11_Witness ==
    /\ proof.kind = "DecodeTrace"
    /\ Len(proof.trace) >= 2
    /\ proof.trace[1].Ap = 65793 /\ proof.trace[1].Fp = 255 /\ proof.trace[1].Pc = 0
    /\ proof.trace[2].Pc = 65793

\* C12: for every relocated memory, also one with no populated cell and one
\* whose last cells are unpopulated, DecodeMemory(EncodeMemory(m)) returns
\* without failure and has the populated cells of m, with the felts of m, and
\* no others.
C12_MemoryCodec ==
    proof.kind = "DecodeMemory"
    => (proof.err = NoErr /\ proof.decodedMemory.cells = proof.memory.cells)

\* the cells of all segments that hold a known value
KnownCells(m) ==
    UNION {{<<s, o>> : o \in DOMAIN m[s + 1].data} : s \in 0 .. Len(m) - 1}

\* the address of record k of a memory output
RecordAddress(content, k) ==
    Uint(SubSeq(content, (addrSize + feltSize) * (k - 1) + 1,
                (addrSize + feltSize) * (k - 1) + addrSize))

\* a memory output with one record per known cell of m, the addresses at
\* least 1 and strictly increasing
OneRecordPerCell(content, m) ==
    /\ Len(content) = (addrSize + feltSize) * Cardinality(KnownCells(m))
    /\ \A k \in 1 .. Cardinality(KnownCells(m)) :
          /\ RecordAddress(content, k) >= 1
          /\ k > 1 => RecordAddress(content, k - 1) < RecordAddress(content, k)

\* C13: the memory output BuildProof builds after a Run that returned nil has
\* exactly one record per cell that is known in any segment, and the record
\* addresses are strictly increasing and all at least 1.
C13_MemoryOutput ==
    [][(/\ proof'.kind = "BuildProof" /\ proof' # proof /\ proof'.err = NoErr
        /\ runsReturned >= 1 /\ last.kind = "Run" /\ last.err = NoErr)
       => OneRecordPerCell(proof'.memoryContent, mem)]_vars

(***************************************************************************)
(* Properties of reading.                                                  *)
(***************************************************************************)
\* the latest step is a call of the memory API of the given kinds
ApiCallOf(kinds) == last'.kind \in kinds /\ apiCalls' = apiCalls + 1

\* C14: a cell is known if and only if a write operation wrote it: a Read or
\* a Peek leaves every cell that was not known before it unknown.
C14_KnownIffWritten ==
    [][ApiCallOf({"Read", "Peek"})
       => /\ Len(mem') = Len(mem)
          /\ \A s \in 1 .. Len(mem') : \A o \in DOMAIN mem'[s].data :
                Known(Cell(mem[s], o))]_vars

\* C15: a Read of an unknown cell of an allocated segment never fails, returns
\* Felt(0) and leaves the cell holding Felt(0); a Write of another value to
\* the cell just read as Felt(0) fails with the rewriting-cell error.
C15_ReadInfersZero ==
    [][/\ (ApiCallOf({"Read"}) /\ Allocated(mem, last'.seg) /\ ~Known(CellBefore))
            => (last'.err = NoErr /\ last'.ret = Felt(0) /\ CellAfter = Felt(0))
       /\ (/\ last.kind = "Read" /\ last.err = NoErr /\ last.ret = Felt(0)
           /\ ApiCallOf({"Write"}) /\ last'.seg = last.seg /\ last'.off = last.off
           /\ last'.val # Felt(0))
            => (last'.err = "RewriteCell" /\ CellAfter = Felt(0))]_vars

\* the first call on a runner was a Read of a cell of the execution segment
\* that nothing had written, and it returned Felt(0)
C15_Witness ==
    /\ last.kind = "Read" /\ last.err = NoErr /\ last.ret = Felt(0)
    /\ last.seg = ExecutionSegment /\ last.off = MaxApiOffset
    /\ apiCalls = 1 /\ stepCalls = 0
    /\ ctx = Context(MemoryAddress(0, 0), 0, 0)

(***************************************************************************)
(* Properties of the entrypoint initialisation.                            *)
(***************************************************************************)
\* the latest step is a direct call of the given initialisation
EntryCallOf(kind) == last'.kind = kind /\ entryCalls' = entryCalls + 1

\* what the proof-mode initialisation leaves, offset being the logical length
\* of the execution segment before the call
ProofEntryDone(offset) ==
    /\ last'.err = NoErr
    /\ Cell(mem'[ExecutionSegment + 1], offset)
         = Addr(ProgramSegment, SegLen(mem[ProgramSegment + 1]) + offset + 2)
    /\ Cell(mem'[ExecutionSegment + 1], offset + 1) = Felt(0)
    /\ ctx' = Context(MemoryAddress(ProgramSegment, program.Labels["__start__"]),
                      offset + 2, offset + 2)
    /\ Len(mem') = Len(mem)
    /\ endPc' = MemoryAddress(ProgramSegment, program.Labels["__end__"])

\* C16: in proof mode, with both labels, InitializeMainEntrypoint writes
\* (ProgramSegment, program length + offset + 2) at execution offset `offset`
\* (the logical length of the execution segment) and Felt(0) at offset + 1,
\* sets pc = (ProgramSegment, start) and ap = fp = offset + 2, allocates no
\* segment and returns (ProgramSegment, end); with a label missing it returns
\* an error.
C16_ProofModeEntry ==
    [][(EntryCallOf("InitializeMainEntrypoint") /\ proofmode)
       => IF {"__start__", "__end__"} \subseteq DOMAIN program.Labels
          THEN ProofEntryDone(SegLen(mem[ExecutionSegment + 1]))
          ELSE last'.err # NoErr]_vars

\* what a successful InitializeEntrypoint(funcName, arguments, returnFp)
\* leaves, offset being the logical length of the execution segment once the
\* arguments are written and allocated the number of segments it allocated
EntryDone(funcName, arguments, returnFp, offset, allocated) ==
    /\ \A i \in 1 .. Len(arguments) :
          Cell(mem'[ExecutionSegment + 1], i - 1) = Felt(arguments[i])
    /\ Cell(mem'[ExecutionSegment + 1], offset) = returnFp
    /\ Cell(mem'[ExecutionSegment + 1], offset + 1)
         = MemoryValueFromMemoryAddress(endPc')
    /\ ctx' = Context(MemoryAddress(ProgramSegment, program.Entrypoints[funcName]),
                      offset + 2, offset + 2)
    /\ Len(mem') = Len(mem) + allocated
    /\ endPc' = MemoryAddress(Len(mem') - 1, 0)
    /\ endPc'.SegmentIndex \notin {ProgramSegment, ExecutionSegment}
    /\ ~Allocated(mem, endPc'.SegmentIndex)
    /\ Cell(mem'[ExecutionSegment + 1], ctx'.Fp - 1) = MemoryValueFromMemoryAddress(endPc')

\* C17: a successful InitializeEntrypoint writes the arguments at execution
\* offsets 0 .. n - 1, the return fp at the execution segment's logical length
\* and the end address at the next offset, sets pc to the entrypoint and
\* ap = fp = that length + 2, and returns the end address (s, 0), s a segment
\* allocated by the call, neither the program nor the execution segment, the
\* address held in the cell just below fp.  Outside proof mode
\* InitializeMainEntrypoint does so for main, no arguments and a return fp in
\* a segment of its own.
C17_Entry ==
    [][/\ (EntryCallOf("InitializeEntrypoint") /\ last'.err = NoErr)
            => EntryDone(last'.name, last'.args, last'.val,
                         Max(SegLen(mem[ExecutionSegment + 1]), Len(last'.args)), 1)
       /\ (EntryCallOf("InitializeMainEntrypoint") /\ ~proofmode /\ last'.err = NoErr)
            => EntryDone("main", <<>>, MemoryValueFromSegmentAndOffset(Len(mem), 0),
                         SegLen(mem[ExecutionSegment + 1]), 2)]_vars

\* InitializeEntrypoint succeeded with two arguments on an execution segment
\* a memory call had made longer than the arguments
C17_Witness ==
    /\ last.kind = "InitializeEntrypoint" /\ last.err = NoErr
    /\ Len(last.args) = 2 /\ ctx.Ap > 4 /\ apiCalls > 0

(***************************************************************************)
(* Properties of one step.  They relate the state before a RunStep call    *)
(* (unprimed) to the state after it (primed); last'.instr is the           *)
(* instruction the step executed.                                          *)
(***************************************************************************)
\* the value of the cell at an address
ValueAt(m, address) ==
    IF Allocated(m, address.SegmentIndex)
    THEN Cell(m[address.SegmentIndex + 1], address.Offset)
    ELSE UnknownMV

\* a RunStep call that executed an instruction
StepOf(instruction) ==
    /\ stepCalls' = stepCalls + 1
    /\ last'.kind = "RunStep"
    /\ last'.instr = instruction

\* the operand addresses of the step
StepDstAddr == getDstAddr(ctx, last'.instr)
StepOp0Addr == getOp0Addr(ctx, last'.instr)
StepOp1Addr == getOp1Addr(mem, ctx, last'.instr, StepOp0Addr.addr)

\* an AssertEq step with res AddOperands or MulOperands whose dst is known
\* and exactly one of whose operands is unknown
InferenceStep ==
    /\ \E w \in {W.Add, W.Mul, W.AddSame, W.AddFp, W.MulFp} :
          StepOf(InstructionTable[w])
    /\ StepDstAddr.err = NoErr /\ StepOp0Addr.err = NoErr /\ StepOp1Addr.err = NoErr
    /\ Known(ValueAt(mem, StepDstAddr.addr))
    /\ Known(ValueAt(mem, StepOp0Addr.addr)) # Known(ValueAt(mem, StepOp1Addr.addr))

KnownOpAddr ==
    IF Known(ValueAt(mem, StepOp0Addr.addr)) THEN StepOp0Addr.addr ELSE StepOp1Addr.addr
UnknownOpAddr ==
    IF Known(ValueAt(mem, StepOp0Addr.addr)) THEN StepOp1Addr.addr ELSE StepOp0Addr.addr

\* the missing operand is written and completes the equation, the known
\* operand and dst are as before, res is dst
OperandInferred ==
    /\ Known(ValueAt(mem', UnknownOpAddr))
    /\ IF last'.instr.Res = "AddOperands"
       THEN MVAdd(ValueAt(mem', StepOp0Addr.addr), ValueAt(mem', StepOp1Addr.addr))
              = MVOk(ValueAt(mem, StepDstAddr.addr))
       ELSE /\ MVMul(ValueAt(mem', StepOp0Addr.addr), ValueAt(mem', StepOp1Addr.addr))
                 = MVOk(ValueAt(mem, StepDstAddr.addr))
            /\ IsFelt(ValueAt(mem', UnknownOpAddr))
    /\ ValueAt(mem', KnownOpAddr) = ValueAt(mem, KnownOpAddr)
    /\ ValueAt(mem', StepDstAddr.addr) = ValueAt(mem, StepDstAddr.addr)
    /\ inferOperand(mem, last'.instr, StepDstAddr.addr, StepOp0Addr.addr,
                    StepOp1Addr.addr).res = ValueAt(mem, StepDstAddr.addr)

ReturnPc(c, instruction) ==
    MemoryValueFromSegmentAndOffset(c.Pc.SegmentIndex, c.Pc.Offset + Size(instruction))

\* what a Ret executed right after the step would leave
RetAfterStep == RunInstruction(mem', ctx', InstructionTable[W.Ret])

\* the frame a successful Call step leaves
CallDone ==
    /\ ValueAt(mem', StepDstAddr.addr) = MemoryValueFromMemoryAddress(AddressFp(ctx))
    /\ ValueAt(mem', StepOp0Addr.addr) = ReturnPc(ctx, last'.instr)
    /\ ctx'.Fp = ctx.Ap + 2
    /\ ctx'.Ap = ctx.Ap + 2
    /\ ValueAt(mem', MemoryAddress(ExecutionSegment, ctx'.Fp - 2))
         = MemoryValueFromMemoryAddress(AddressFp(ctx))
    /\ ValueAt(mem', MemoryAddress(ExecutionSegment, ctx'.Fp - 1))
         = ReturnPc(ctx, last'.instr)
    /\ RetAfterStep.err = NoErr
    /\ RetAfterStep.ctx
         = Context(ToMemoryAddress(ReturnPc(ctx, last'.instr)).val, ctx'.Ap, ctx.Fp)

\* what a successful Ret step leaves: fp and pc from the two cells below fp
RetDone ==
    /\ IsAddress(ValueAt(mem, MemoryAddress(ExecutionSegment, ctx.Fp - 2)))
    /\ ctx'.Fp = ValueAt(mem, MemoryAddress(ExecutionSegment, ctx.Fp - 2)).val
    /\ IsAddress(ValueAt(mem, MemoryAddress(ExecutionSegment, ctx.Fp - 1)))
    /\ MemoryValueFromMemoryAddress(ctx'.Pc)
         = ValueAt(mem, MemoryAddress(ExecutionSegment, ctx.Fp - 1))
    /\ ctx'.Ap = ctx.Ap

JnzStep ==
    /\ \E w \in {W.Jnz, W.JnzFp} : StepOf(InstructionTable[w])
    /\ StepDstAddr.err = NoErr /\ StepOp0Addr.err = NoErr /\ StepOp1Addr.err = NoErr

\* what a read of the cell returns when it succeeds: the value of a known
\* cell, the inferred Felt(0) for an unknown one
ValueRead(address) ==
    IF Known(ValueAt(mem, address)) THEN ValueAt(mem, address) ELSE Felt(0)

\* the jump of the step is taken: dst reads as a felt other than zero
JnzTaken == IsFelt(ValueRead(StepDstAddr.addr)) /\ ValueRead(StepDstAddr.addr) # Felt(0)

\* C20: a successful Jnz step whose dst reads as Felt(0) moves pc by the
\* instruction size and leaves the op1 cell as it was (unknown if it was
\* unknown: it is not read); one whose dst reads as another felt moves pc by
\* the felt read at op1_addr, taken as a signed number; pc.segment is
\* unchanged; the step fails if dst is an address, and if the jump is taken
\* and op1 is an address.
C20_Jnz ==
    [][JnzStep
       => /\ last'.err = NoErr
               => /\ IF ValueRead(StepDstAddr.addr) = Felt(0)
                     THEN /\ ctx'.Pc.Offset = ctx.Pc.Offset + Size(last'.instr)
                          /\ ValueAt(mem', StepOp1Addr.addr) = ValueAt(mem, StepOp1Addr.addr)
                     ELSE /\ JnzTaken
                          /\ IsFelt(ValueRead(StepOp1Addr.addr))
                          /\ ctx'.Pc.Offset
                               = ctx.Pc.Offset + FeltSigned(ValueRead(StepOp1Addr.addr).val)
                          /\ ValueAt(mem', StepOp1Addr.addr) = ValueRead(StepOp1Addr.addr)
                  /\ ctx'.Pc.SegmentIndex = ctx.Pc.SegmentIndex
          /\ IsAddress(ValueAt(mem, StepDstAddr.addr)) => last'.err # NoErr
          /\ (JnzTaken /\ IsAddress(ValueAt(mem, StepOp1Addr.addr))) => last'.err # NoErr]_vars

\* `jmp rel [fp + 1] if [fp] != 0` ran with 5 in both cells: the jump was
\* taken and pc moved by 5
C20_Witness ==
    /\ last.kind = "RunStep" /\ last.err = NoErr
    /\ last.instr = InstructionTable[W.JnzFp]
    /\ ValueAt(mem, MemoryAddress(ExecutionSegment, last.ctx.Fp)) = Felt(5)
    /\ ValueAt(mem, MemoryAddress(ExecutionSegment, last.ctx.Fp + 1)) = Felt(5)
    /\ ctx.Pc = MemoryAddress(last.ctx.Pc.SegmentIndex, last.ctx.Pc.Offset + 5)

\* the relocated trace of the state after the call
TraceRelocated == ExecutionTrace(mem', trace', proofmode)

C22_PeekInfersNothing ==
    [][ApiCallOf({"Peek"})
       => /\ Len(mem') = Len(mem)
          /\ \A s \in 1 .. Len(mem) : mem'[s].data = mem[s].data
          /\ IF Allocated(mem, last'.seg)
             THEN last'.err = NoErr /\ last'.ret = CellBefore /\ CellAfter = CellBefore
             ELSE last'.err = "UnallocatedSegment" /\ mem' = mem]_vars

\* a Peek past the length of the execution segment returned an unknown cell
\* and left it unknown
C22_Witness ==
    /\ last.kind = "Peek" /\ last.err = NoErr /\ last.seg = ExecutionSegment
    /\ last.off > 0 /\ SegLen(mem[ExecutionSegment + 1]) = last.off + 1
    /\ ~Known(last.ret)
    /\ ~Known(Cell(mem[ExecutionSegment + 1], last.off))

(***************************************************************************)
(* Properties of the segment sizes.                                        *)
(***************************************************************************)
\* the segment the latest memory API call addressed, before and after it
SegmentBefore == mem[last'.seg + 1]
SegmentAfter == mem'[last'.seg + 1]

\* a Write, Read or Peek at an offset at or beyond the physical length
GrowingCall ==
    /\ ApiCallOf({"Write", "Read", "Peek"})
    /\ Allocated(mem, last'.seg)
    /\ last'.off >= RealLen(SegmentBefore)

\* the cells below the old physical length are as they were, and no segment
\* has become shorter
GrowthKeepsCells ==
    /\ \A o \in 0 .. RealLen(SegmentBefore) - 1 :
          Cell(SegmentAfter, o) = Cell(SegmentBefore, o)
    /\ Len(mem') >= Len(mem)
    /\ \A s \in 1 .. Len(mem) : RealLen(mem'[s]) >= RealLen(mem[s])

\* C23 as stated: a Write, Read or Peek at an offset o at or beyond the
\* physical length L leaves the physical length max(o + 1, 2 * L) and the
\* cells below L as they were; the physical length never decreases.
C23_GrowthAsStated ==
    [][/\ GrowingCall
            => /\ RealLen(SegmentAfter) = Max(last'.off + 1, 2 * RealLen(SegmentBefore))
               /\ GrowthKeepsCells
       /\ \A s \in 1 .. Len(mem) : RealLen(mem'[s]) >= RealLen(mem[s])]_vars

\* C23: a Write, Read or Peek at an offset o at or beyond the physical
\* length L leaves the physical length at the capacity of the segment when
\* the capacity exceeds o + 1, and at max(o + 1, 2 * L) otherwise, and the
\* cells below L as they were; the physical length never decreases.
C23_Growth ==
    [][/\ GrowingCall
            => /\ RealLen(SegmentAfter)
                    = IF SegmentBefore.cap > last'.off + 1
                      THEN SegmentBefore.cap
                      ELSE Max(last'.off + 1, 2 * RealLen(SegmentBefore))
               /\ GrowthKeepsCells
       /\ \A s \in 1 .. Len(mem) : RealLen(mem'[s]) >= RealLen(mem[s])]_vars

\* a Write at offset 3 of a program segment of three words doubled it
C23_Witness ==
    /\ last.kind = "Write" /\ last.seg = ProgramSegment /\ last.off = 3
    /\ Len(program.Bytecode) = 3
    /\ RealLen(mem[ProgramSegment + 1]) = 6

(***************************************************************************)
(* Properties of the instruction cache.                                    *)
(***************************************************************************)
\* the step of a virtual machine that has no cache: it reads and decodes the
\* word at pc, segment and offset
DecodingStep ==
    RunStep(mem, ctx, step, trace, [o \in {} |-> NoInstr], proofmode, "nil")

\* C24: every step of a run leaves the memory and the context, and returns
\* the error, that a step decoding the word at the current pc leaves and
\* returns; as both machines start from one state, they then agree after
\* every sequence of steps.
C24_CacheTransparent ==
    [][stepsInCall' = stepsInCall + 1
       => \E ref \in {DecodingStep} :
             /\ ref.mem = mem'
             /\ ref.ctx = ctx'
             /\ ref.err = last'.err]_vars

\* C25: a RunStep call that returns an error, at whatever stage, leaves pc,
\* ap, fp and the step counter as they were.
C25_FailedStepKeepsRegisters ==
    [][(stepCalls' = stepCalls + 1 /\ last'.kind = "RunStep" /\ last'.err # NoErr)
       => (ctx' = ctx /\ step' = step)]_vars

\* a call failed in its opcode assertions after writing fp into dst: the
\* registers and the step counter are those before the step
C25_Witness ==
    /\ last.kind = "RunStep" /\ last.err = "RewriteCell"
    /\ last.instr = InstructionTable[W.CallRel]
    /\ Cell(mem[ExecutionSegment + 1], last.ctx.Ap)
         = MemoryValueFromMemoryAddress(AddressFp(last.ctx))
    /\ apiCalls = 1
    /\ ctx = last.ctx /\ step = 0

(***************************************************************************)
(* Properties of a failed write.                                           *)
(***************************************************************************)
\* C26: a Write to an allocated segment that returns an error, the
\* rewriting-cell error or the error of the builtin runner's CheckWrite,
\* leaves every cell of the segment with the value and the known status it
\* had.
C26_FailedWriteKeepsCells ==
    [][(ApiCallOf({"Write"}) /\ Allocated(mem, last'.seg) /\ last'.err # NoErr)
       => SegmentAfter.data = SegmentBefore.data]_vars

\* C27: after every Write, Read and Peek call every known cell of every
\* segment has an offset below Len() = LastIndex + 1, and no Len() has
\* decreased.
C27_LenCoversKnownCells ==
    [][ApiCallOf({"Write", "Read", "Peek"})
       => /\ \A s \in 1 .. Len(mem') : \A o \in DOMAIN mem'[s].data :
                o < SegLen(mem'[s])
          /\ \A s \in 1 .. Len(mem) : SegLen(mem'[s]) >= SegLen(mem[s])]_vars

(***************************************************************************)
(* Properties of ap.                                                       *)
(***************************************************************************)
\* a step of a run that returned no error
SuccessfulStep == stepsInCall' = stepsInCall + 1 /\ last'.err = NoErr

\* C28: across every successful step ap does not decrease; a Call raises it
\* by exactly 2 and a Ret leaves it unchanged.
C28_ApMonotone ==
    [][SuccessfulStep
       => /\ ctx'.Ap >= ctx.Ap
          /\ last'.instr.Opcode = "Call" => ctx'.Ap = ctx.Ap + 2
          /\ last'.instr.Opcode = "Ret" => ctx'.Ap = ctx.Ap]_vars

\* `ap += 2` ran in main, after the call that had raised ap by 2
C28_Witness ==
    /\ last.err = NoErr
    /\ last.instr = InstructionTable[W.AddAp]
    /\ stepsInCall = 2
    /\ ctx.Ap = last.ctx.Ap + 2
    /\ last.ctx.Ap = last.ctx.Fp

(***************************************************************************)
(* Properties of a failed initialization.                                  *)
(***************************************************************************)
\* InitializeMainEntrypoint returned the error of a missing symbol
MissingSymbolCall ==
    /\ EntryCallOf("InitializeMainEntrypoint")
    /\ last'.err \in {"MissingLabel", "UnknownEntrypoint"}

\* no segment was allocated, no cell written, the context is unchanged
NoEffect ==
    /\ Len(mem') = Len(mem)
    /\ \A s \in 1 .. Len(mem) : mem'[s].data = mem[s].data
    /\ ctx' = ctx

\* C29: an InitializeMainEntrypoint call that fails because a symbol is
\* missing (a proof-mode label, or main outside proof mode) allocates no
\* segment, writes no cell and leaves the context unchanged.
C29_FailedInitializationNoEffect == [][MissingSymbolCall => NoEffect]_vars

====
